---- MODULE Spec2Model ----
(***************************************************************************)
(* A model of the sanshu interaction popup front end:                      *)
(*   - McpPopup (second <script setup> of ReplySettings.vue): the form     *)
(*     state of the popup and the submit / continue / enhance handlers;    *)
(*   - PopupInput (unnamed/part_002): the input box, the option list, the  *)
(*     pasted ingredients and the conditional prompts;                     *)
(*   - HistoryTab.vue: the history list and its search filter.             *)
(* Texts are sequences of one-character strings.  Three characters that    *)
(* are not ASCII are written as tokens: FWColon, FWSlash and FWSpace.      *)
(***************************************************************************)
EXTENDS Integers, Sequences, FiniteSets, TLC

(* ------------------------------ bounds -------------------------------- *)
\* handler invocations (submit / continue / enhance) awaiting the backend
MaxCalls == 2
\* paste events PopupInput is still handling
MaxPastes == 2
\* conditional-prompt switches whose save is still awaited
MaxToggles == 1
\* the saves of the prompt order that may be awaited at a time
MaxSaves == 2

(* ------------------------------- texts -------------------------------- *)
SP == " "
NL == "\n"
\* U+FF1A, U+FF0F and U+3000
FWColon == "<U+FF1A>"
FWSlash == "<U+FF0F>"
FWSpace == "<U+3000>"

\* the characters String.prototype.trim strips (those the model uses)
WhiteSpace == {SP, NL, "\r", FWSpace}

RECURSIVE TrimStart(_)
TrimStart(s) ==
  IF s = <<>> THEN <<>>
  ELSE IF Head(s) \in WhiteSpace THEN TrimStart(Tail(s)) ELSE s

RECURSIVE TrimEnd(_)
TrimEnd(s) ==
  IF s = <<>> THEN <<>>
  ELSE IF s[Len(s)] \in WhiteSpace THEN TrimEnd(SubSeq(s, 1, Len(s) - 1)) ELSE s

\* String.prototype.trim
Trim(s) == TrimEnd(TrimStart(s))

\* Array.prototype.join
RECURSIVE Join(_, _)
Join(texts, sep) ==
  IF texts = <<>> THEN <<>>
  ELSE IF Len(texts) = 1 THEN texts[1]
  ELSE texts[1] \o sep \o Join(Tail(texts), sep)

\* Array.prototype.indexOf: 0 stands for -1
RECURSIVE IndexFrom(_, _, _)
IndexFrom(s, x, i) ==
  IF i > Len(s) THEN 0
  ELSE IF s[i] = x THEN i ELSE IndexFrom(s, x, i + 1)

IndexOf(s, x) == IndexFrom(s, x, 1)

\* Array.prototype.splice(i, 1)
RemoveAt(s, i) == SubSeq(s, 1, i - 1) \o SubSeq(s, i + 1, Len(s))

Range(s) == {s[i] : i \in 1..Len(s)}

(* an optional value: string | null, string | undefined *)
Some(v) == [some |-> TRUE, val |-> v]
NoText == [some |-> FALSE, val |-> <<>>]
NoId == [some |-> FALSE, val |-> ""]

(* ------------------------------ inputs -------------------------------- *)
\* requests the popup may be given (McpRequest: id, menu); an undefined menu
\* and an empty one are the same to the popup: (menu?.length ?? 0) > 0
NoRequest == [present |-> FALSE, id |-> "", menu |-> <<>>]

RequestMenu == [present |-> TRUE, id |-> "t1", menu |-> <<"A", "B">>]
RequestPlain == [present |-> TRUE, id |-> "", menu |-> <<>>]

Requests == {RequestMenu, RequestPlain}

Options == {"A", "B"}

\* what the user types, or a Telegram text_updated event carries
NoteTexts == { <<>>, <<SP>>, <<"h", SP>> }

\* continue prompts a reply configuration may hold
ContinuePrompts == { <<"g", "o">>, <<>> }

DefaultContinuePrompt == <<"d", "e", "f">>

\* custom prompts as get_custom_prompt_config returns them
PromptN1 ==
  [id |-> "n1", type |-> "normal", content |-> <<"x">>, sort_order |-> 1,
   template_true |-> NoText, template_false |-> NoText, current_state |-> "unset"]

PromptN2 ==
  [id |-> "n2", type |-> "", content |-> <<SP>>, sort_order |-> 0,
   template_true |-> NoText, template_false |-> NoText, current_state |-> "unset"]

PromptK1 ==
  [id |-> "k1", type |-> "conditional", content |-> <<>>, sort_order |-> 3,
   template_true |-> Some(<<SP, "t", SP>>), template_false |-> NoText,
   current_state |-> "unset"]

PromptK2 ==
  [id |-> "k2", type |-> "conditional", content |-> <<>>, sort_order |-> 2,
   template_true |-> Some(<<SP>>), template_false |-> Some(<<"f">>),
   current_state |-> "true"]

PromptN3 ==
  [id |-> "n3", type |-> "normal", content |-> <<"y">>, sort_order |-> 4,
   template_true |-> NoText, template_false |-> NoText, current_state |-> "unset"]

\* configs with templates to drag: none of them normal, and three
SortConfigs ==
  { <<PromptK1>>, <<PromptN3, PromptN1, PromptK1, PromptN2, PromptK2>> }

\* evt.oldIndex and evt.newIndex of a SortableEvent: number | undefined
NoIndex == [some |-> FALSE, val |-> 0]

PromptConfigs ==
  { <<>>, <<PromptK1>>, <<PromptN1, PromptK1, PromptN2, PromptK2>> }

(* ------------------------------- state -------------------------------- *)
VARIABLES
  \* McpPopup
  request, mockMode, submitting, toppings, note, spiceIds, continuePrompt,
  \* the handler invocations that await the backend
  calls,
  \* PopupInput
  cNote, cToppings, ingredients, customPrompts, pendingToggles, pastes,
  \* PopupInput: the list the drag handles show, the order saves awaited
  sortablePrompts, promptSaves,
  \* HistoryTab
  entries, search, range, selectedId, selectedDetail, historyCalls,
  \* ReplySettings: the field of the wait threshold and what the backend stores
  interactionWaitSeconds, storedWaitMs,
  \* a run of an install script
  install,
  \* the prompt module: the call made last, its argument and its result
  promptCall,
  \* the operation that ran last, and the invocation it began or ended
  last

popupVars == <<request, mockMode, submitting, toppings, note, spiceIds,
               continuePrompt, calls>>
formVars == <<cNote, cToppings, ingredients>>
sortVars == <<sortablePrompts, promptSaves>>
inputVars == <<formVars, customPrompts, pendingToggles, pastes, sortVars>>
selectionVars == <<range, selectedId, selectedDetail, historyCalls>>
historyVars == <<entries, search, selectionVars>>
outsideVars == <<interactionWaitSeconds, storedWaitMs, install, promptCall>>
vars == <<popupVars, inputVars, historyVars, outsideVars, last>>

\* what last holds: the operation, whether it went through (the guard of a
\* handler let it pass, the awaited command succeeded), and for a step of a
\* paste or of a handler invocation the invocation as the step left it
NoTask == [kind |-> "none"]
Did(op) == [op |-> op, passed |-> TRUE, task |-> NoTask]
Refused(op) == [op |-> op, passed |-> FALSE, task |-> NoTask]
Ended(op, task) == [op |-> op, passed |-> TRUE, task |-> task]
Failed(op, task) == [op |-> op, passed |-> FALSE, task |-> task]

\* message.warning / message.success / message.error
Message(level, text) == [kind |-> "message", level |-> level, text |-> text]

(* ================= PopupInput (unnamed/part_002) ===================== *)

\* const conditionalPrompts = computed(...)
conditionalPrompts(prompts) == SelectSeq(prompts, LAMBDA p : p.type = "conditional")

\* const normalPrompts = computed(...)
normalPrompts(prompts) ==
  SelectSeq(prompts, LAMBDA p : p.type = "normal" \/ p.type = "")

\* a variant of TemplateOf that takes an unset state for true
TemplateOfUnsetTrue(p) ==
  IF p.current_state # "false" THEN p.template_true ELSE p.template_false

\* the template generateConditionalContent picks for one prompt
TemplateOf(p) ==
  IF p.current_state = "true" THEN p.template_true ELSE p.template_false

RECURSIVE ConditionalTexts(_)
ConditionalTexts(ps) ==
  IF ps = <<>> THEN <<>>
  ELSE LET t == TemplateOf(Head(ps))
       IN  IF t.some /\ Trim(t.val) # <<>>
           THEN <<Trim(t.val)>> \o ConditionalTexts(Tail(ps))
           ELSE ConditionalTexts(Tail(ps))

generateConditionalContent(prompts) ==
  LET conditionalTexts == ConditionalTexts(conditionalPrompts(prompts))
  IN  IF Len(conditionalTexts) > 0
      THEN <<NL, NL>> \o Join(conditionalTexts, <<NL>>)
      ELSE <<>>

\* the payload of emit('update', ...)
UpdatePayload(n, ts, ings, prompts) ==
  [note |-> n \o generateConditionalContent(prompts),
   toppings |-> ts,
   spiceIds |-> [i \in 1..Len(ings) |-> ings[i].spiceId]]

\* McpPopup.handleInputUpdate, which PopupInput's 'update' event runs
handleInputUpdate(data) ==
  /\ note' = data.note
  /\ toppings' = data.toppings
  /\ spiceIds' = data.spiceIds

\* emitUpdate() once the handler has left PopupInput in the primed state
emitUpdate ==
  handleInputUpdate(UpdatePayload(cNote', cToppings', ingredients', customPrompts'))

\* Array.prototype.sort by sort_order (stable): insertion into a sorted list
RECURSIVE InsertSorted(_, _)
InsertSorted(p, sorted) ==
  IF sorted = <<>> THEN <<p>>
  ELSE IF p.sort_order < Head(sorted).sort_order THEN <<p>> \o sorted
  ELSE <<Head(sorted)>> \o InsertSorted(p, Tail(sorted))

RECURSIVE SortBySortOrder(_)
SortBySortOrder(ps) ==
  IF ps = <<>> THEN <<>>
  ELSE InsertSorted(ps[Len(ps)], SortBySortOrder(SubSeq(ps, 1, Len(ps) - 1)))

(* ---------------- PopupInput: the form and the prompts ---------------- *)
\* <PopupInput> is rendered under v-if="isVisible", isVisible = !!props.request
mounted == request.present

\* computed hasOptions (the same expression in both components)
hasOptions == Len(request.menu) > 0

\* the variables of McpPopup that PopupInput's 'update' event leaves alone
popupRest ==
  <<request, mockMode, submitting, continuePrompt, calls>>

pasteVars == <<pendingToggles, pastes>>

\* splice out the option when it is selected, push it otherwise
ToggleOption(ts, o) ==
  IF IndexOf(ts, o) > 0 THEN RemoveAt(ts, IndexOf(ts, o)) ELSE Append(ts, o)

\* typing into the textarea (v-model, disabled while submitting), then
\* watch(note, () => emitUpdate())
typeNote(t) ==
  /\ mounted /\ ~submitting /\ t # cNote
  /\ cNote' = t
  /\ UNCHANGED <<cToppings, ingredients, customPrompts, sortVars>>
  /\ emitUpdate
  /\ last' = Did("typeNote")
  /\ UNCHANGED <<popupRest, pasteVars, historyVars, outsideVars>>

\* the checkbox of an option: it shows toppings.includes(option), is disabled
\* while submitting, and reports the opposite of what it shows
handleOptionChange(option, checked) ==
  /\ mounted /\ hasOptions /\ ~submitting
  /\ option \in Range(request.menu)
  /\ checked = (IndexOf(cToppings, option) = 0)
  /\ cToppings' =
       IF checked THEN Append(cToppings, option)
       ELSE IF IndexOf(cToppings, option) > 0
            THEN RemoveAt(cToppings, IndexOf(cToppings, option))
            ELSE cToppings
  /\ UNCHANGED <<cNote, ingredients, customPrompts, sortVars>>
  /\ emitUpdate
  /\ last' = Did("handleOptionChange")
  /\ UNCHANGED <<popupRest, pasteVars, historyVars, outsideVars>>

\* PopupInput.handleOptionToggle: a click on the row of an option
inputHandleOptionToggle(option) ==
  /\ mounted /\ hasOptions
  /\ option \in Range(request.menu)
  /\ cToppings' = ToggleOption(cToppings, option)
  /\ UNCHANGED <<cNote, ingredients, customPrompts, sortVars>>
  /\ emitUpdate
  /\ last' = Did("inputHandleOptionToggle")
  /\ UNCHANGED <<popupRest, pasteVars, historyVars, outsideVars>>

HasSpice(ings, id) == \E k \in 1..Len(ings) : ings[k].spiceId = id

\* the preview URL of an item: URL.createObjectURL gives every item a URL
\* of its own, which the model names after the spice id of the item
previewUrl(b) == <<"blob:", b.spiceId>>

\* a variant of Release that discards the spice of the first item only
ReleaseFirst(index, items) ==
  [kind |-> "release", index |-> index,
   revoked |-> [k \in 1..Len(items) |-> previewUrl(items[k])],
   discarded |-> IF items = <<>> THEN <<>> ELSE <<items[1].spiceId>>]

\* what removeIngredient(index), reset and onUnmounted do with the items they
\* take: URL.revokeObjectURL for each preview URL and discard_spice_cmd for
\* each spice id, in the order of the items
Release(index, items) ==
  LET urls == SelectSeq(items, LAMBDA b : previewUrl(b) # <<>>)
      spices == SelectSeq(items, LAMBDA b : b.spiceId # "")
  IN  [kind |-> "release", index |-> index,
       revoked |-> [k \in 1..Len(urls) |-> previewUrl(urls[k])],
       discarded |-> [k \in 1..Len(spices) |-> spices[k].spiceId]]

removeIngredient(index) ==
  /\ mounted
  /\ index \in 1..Len(ingredients)
  /\ ingredients' = RemoveAt(ingredients, index)
  /\ UNCHANGED <<cNote, cToppings, customPrompts, sortVars>>
  /\ emitUpdate
  /\ last' = Ended("removeIngredient", Release(index, <<ingredients[index]>>))
  /\ UNCHANGED <<popupRest, pasteVars, historyVars, outsideVars>>

\* loadCustomPrompts once get_custom_prompt_config has returned a config;
\* the prompt objects are new, so a save still awaited can no longer roll
\* its prompt back
loadCustomPrompts(prompts) ==
  /\ mounted
  /\ customPrompts' = SortBySortOrder(prompts)
  /\ sortablePrompts' = normalPrompts(customPrompts')
  /\ pendingToggles' = {[t EXCEPT !.attached = FALSE] : t \in pendingToggles}
  /\ last' = Did("loadCustomPrompts")
  /\ UNCHANGED <<popupVars, formVars, pastes, promptSaves, historyVars, outsideVars>>

StateText(b) == IF b THEN "true" ELSE "false"

\* the first prompt with this id: customPrompts.value.find(p => p.id === promptId)
FindPrompt(prompts, id) ==
  IF \E k \in 1..Len(prompts) : prompts[k].id = id
  THEN CHOOSE k \in 1..Len(prompts) :
         /\ prompts[k].id = id
         /\ \A j \in 1..(k - 1) : prompts[j].id # id
  ELSE 0

\* handleConditionalToggle up to its await: the switch shows
\* current_state ?? false and reports the opposite
handleConditionalToggle(promptId, value) ==
  /\ mounted
  /\ Cardinality(pendingToggles) < MaxToggles
  /\ LET k == FindPrompt(customPrompts, promptId)
     IN  /\ k > 0
         /\ customPrompts[k].type = "conditional"
         /\ value = ~(customPrompts[k].current_state = "true")
         /\ customPrompts' =
              [customPrompts EXCEPT ![k].current_state = StateText(value)]
  /\ pendingToggles' =
       pendingToggles \cup
         {[promptId |-> promptId, value |-> value, attached |-> TRUE]}
  /\ last' = Did("handleConditionalToggle")
  /\ UNCHANGED <<popupVars, formVars, pastes, sortVars, historyVars, outsideVars>>

\* update_conditional_prompt_state returns; on failure the local state of the
\* prompt is rolled back to !value
conditionalToggleReturns(t, ok) ==
  /\ t \in pendingToggles
  /\ pendingToggles' = pendingToggles \ {t}
  /\ LET k == FindPrompt(customPrompts, t.promptId)
     IN  customPrompts' =
           IF ~ok /\ t.attached /\ k > 0
           THEN [customPrompts EXCEPT ![k].current_state = StateText(~t.value)]
           ELSE customPrompts
  /\ last' = Did("conditionalToggleReturns")
  /\ UNCHANGED <<popupVars, formVars, pastes, sortVars, historyVars, outsideVars>>

\* newList.splice(at, 0, item) with at within the list
InsertAt(list, at, item) ==
  SubSeq(list, 1, at) \o <<item>> \o SubSeq(list, at + 1, Len(list))

\* a variant of moveItem that swaps the two places
moveItemBySwap(list, oldIndex, newIndex) ==
  [list EXCEPT ![oldIndex + 1] = list[newIndex + 1],
               ![newIndex + 1] = list[oldIndex + 1]]

\* onEnd: const [movedItem] = newList.splice(evt.oldIndex, 1), then
\* newList.splice(evt.newIndex, 0, movedItem); the indexes count from 0
moveItem(list, oldIndex, newIndex) ==
  InsertAt(RemoveAt(list, oldIndex + 1), newIndex, list[oldIndex + 1])

\* what a drag reports in last: the indexes of the event and what it invoked
SortEvent(oldIndex, newIndex, invoked) ==
  [kind |-> "sort", oldIndex |-> oldIndex, newIndex |-> newIndex,
   invoked |-> invoked]

\* savePromptOrder up to its await
savePromptOrderCall(list) ==
  [cmd |-> "update_custom_prompt_order",
   args |-> [promptIds |-> [k \in 1..Len(list) |-> list[k].id]]]

\* onEnd of useSortable: a template of the rendered list was dragged from
\* oldIndex and dropped at newIndex; savePromptOrder runs up to its await
onEnd(oldIndex, newIndex) ==
  /\ mounted
  /\ \A x \in {oldIndex, newIndex} : x.some => x.val \in 0..(Len(sortablePrompts) - 1)
  /\ IF oldIndex # newIndex /\ oldIndex.some /\ newIndex.some
     THEN LET newList == moveItem(sortablePrompts, oldIndex.val, newIndex.val)
          IN  /\ Len(promptSaves) < MaxSaves
              /\ sortablePrompts' = newList
              /\ customPrompts' = newList \o conditionalPrompts(customPrompts)
              /\ promptSaves' = Append(promptSaves, savePromptOrderCall(newList))
              /\ last' = Ended("onEnd", SortEvent(oldIndex, newIndex,
                                                  <<savePromptOrderCall(newList)>>))
     ELSE /\ sortablePrompts # <<>>
          /\ last' = Failed("onEnd", SortEvent(oldIndex, newIndex, <<>>))
          /\ UNCHANGED <<customPrompts, sortVars>>
  /\ UNCHANGED <<popupVars, formVars, pendingToggles, pastes, historyVars, outsideVars>>

\* update_custom_prompt_order answers the save i: message.success, or
\* message.error and loadCustomPrompts(), whose config arrives on its own
savePromptOrderReturns(i, ok) ==
  /\ i \in 1..Len(promptSaves)
  /\ promptSaves' = RemoveAt(promptSaves, i)
  /\ last' = IF ok THEN Ended("savePromptOrderReturns", Message("success", "<order saved>"))
             ELSE Failed("savePromptOrderReturns", Message("error", "<saving the order failed>"))
  /\ UNCHANGED <<popupVars, formVars, customPrompts, sortablePrompts,
                 pendingToggles, pastes, historyVars, outsideVars>>

(* ------------------------ PopupInput: pasting ------------------------- *)
CR == "\r"

Upper == <<"A", "B", "C", "D", "E", "F", "G", "H", "I", "J", "K", "L", "M",
           "N", "O", "P", "Q", "R", "S", "T", "U", "V", "W", "X", "Y", "Z">>
Lower == <<"a", "b", "c", "d", "e", "f", "g", "h", "i", "j", "k", "l", "m",
           "n", "o", "p", "q", "r", "s", "t", "u", "v", "w", "x", "y", "z">>

LowerChar(c) ==
  IF \E k \in 1..26 : Upper[k] = c
  THEN Lower[CHOOSE k \in 1..26 : Upper[k] = c]
  ELSE c

\* String.prototype.toLowerCase
ToLowerCase(s) == [k \in 1..Len(s) |-> LowerChar(s[k])]

StartsWith(s, prefix) ==
  Len(s) >= Len(prefix) /\ SubSeq(s, 1, Len(prefix)) = prefix

\* text.split(/\r?\n/); cur is the line read so far
RECURSIVE SplitLines(_, _)
SplitLines(s, cur) ==
  IF s = <<>> THEN <<cur>>
  ELSE IF Head(s) = NL THEN <<cur>> \o SplitLines(Tail(s), <<>>)
  ELSE IF Head(s) = CR /\ Len(s) >= 2 /\ s[2] = NL
       THEN <<cur>> \o SplitLines(SubSeq(s, 3, Len(s)), <<>>)
  ELSE SplitLines(Tail(s), Append(cur, Head(s)))

\* the alternatives of /(\.png|\.jpe?g|\.webp|\.gif|\.bmp|\.tiff?)(\?.*)?$/i
ImageExtensions ==
  { <<".", "p", "n", "g">>, <<".", "j", "p", "g">>, <<".", "j", "p", "e", "g">>,
    <<".", "w", "e", "b", "p">>, <<".", "g", "i", "f">>, <<".", "b", "m", "p">>,
    <<".", "t", "i", "f">>, <<".", "t", "i", "f", "f">> }

\* imageExt.test(line): an extension that ends the line or is followed by a
\* query, "?" and then characters other than line terminators
imageExtTest(line) ==
  \E k \in 1..Len(line) : \E e \in ImageExtensions :
    LET stop == k + Len(e) - 1
    IN  /\ stop <= Len(line)
        /\ ToLowerCase(SubSeq(line, k, stop)) = e
        /\ \/ stop = Len(line)
           \/ /\ line[stop + 1] = "?"
              /\ \A j \in (stop + 2)..Len(line) : line[j] \notin {NL, CR}

\* /^[a-zA-Z]:[\\/]/.test(line)
IsDrivePath(line) ==
  /\ Len(line) >= 3
  /\ line[1] \in Range(Upper) \cup Range(Lower)
  /\ line[2] = ":"
  /\ line[3] \in {"\\", "/"}

looksLikeImageFilePathList(text) ==
  LET rawLines ==
        SelectSeq([k \in 1..Len(SplitLines(text, <<>>)) |->
                     Trim(SplitLines(text, <<>>)[k])],
                  LAMBDA l : l # <<>>)
      lines ==
        IF rawLines # <<>> /\ rawLines[1] \in {<<"c", "o", "p", "y">>, <<"c", "u", "t">>}
        THEN Tail(rawLines) ELSE rawLines
  IN  IF Len(rawLines) = 0 THEN FALSE
      ELSE IF Len(lines) = 0 THEN FALSE
      ELSE \E k \in 1..Len(lines) :
             LET line == lines[k]
             IN  IF StartsWith(line, <<"#">>) THEN FALSE
                 ELSE IF StartsWith(line, <<"f", "i", "l", "e", ":", "/", "/">>)
                      THEN imageExtTest(line)
                 ELSE IF StartsWith(line, <<"/">>) \/ IsDrivePath(line)
                      THEN imageExtTest(line)
                 ELSE FALSE

\* text/plain payloads
PlainHello == <<"h", "i">>
PlainPath == <<"/", "a", ".", "p", "n", "g">>
PlainCopyPath ==
  <<"c", "o", "p", "y", CR, NL, "C", ":", "\\", "a", ".", "G", "I", "F", "?", "v">>
PlainComment == <<"#", "/", "a", ".", "p", "n", "g">>
PlainRelative == <<"a", ".", "p", "n", "g", NL>>
PlainCut == <<"c", "u", "t", NL>>

\* a ClipboardEvent: files and items carry their MIME class, an item of kind
\* "file" also whether getAsFile() returns a file; html is the text/html
\* payload, seen as the src attributes of its <img> tags ("data" for a
\* data:image/ URL)
ClipEvent(prevented, data, files, items, htmlPresent, srcs, plain) ==
  [defaultPrevented |-> prevented, clipboardData |-> data, files |-> files,
   items |-> items, html |-> [present |-> htmlPresent, srcs |-> srcs],
   plain |-> plain]

FileItem(type, file) == [kind |-> "file", type |-> type, file |-> file]
StringItem == [kind |-> "string", type |-> "text", file |-> FALSE]

\* a pasted image file
PastedImage == ClipEvent(FALSE, TRUE, <<"image">>, <<>>, FALSE, <<>>, <<>>)

PasteEvents ==
  { PastedImage,
    ClipEvent(TRUE, TRUE, <<"image">>, <<>>, FALSE, <<>>, <<>>),
    ClipEvent(FALSE, FALSE, <<>>, <<>>, FALSE, <<>>, <<>>),
    ClipEvent(FALSE, TRUE, <<"image", "text">>, <<>>, TRUE, <<"data">>, PlainPath),
    ClipEvent(FALSE, TRUE, <<"image", "image">>, <<>>, FALSE, <<>>, <<>>),
    ClipEvent(FALSE, TRUE, <<"text">>, <<StringItem, FileItem("image", TRUE)>>,
              FALSE, <<>>, PlainHello),
    ClipEvent(FALSE, TRUE, <<>>, <<FileItem("image", FALSE)>>, TRUE,
              <<"data", "other", "data">>, PlainPath),
    ClipEvent(FALSE, TRUE, <<>>, <<StringItem>>, TRUE, <<"other">>, PlainHello),
    ClipEvent(FALSE, TRUE, <<>>, <<>>, TRUE, <<>>, PlainPath),
    ClipEvent(FALSE, TRUE, <<>>, <<>>, FALSE, <<>>, PlainCopyPath),
    ClipEvent(FALSE, TRUE, <<>>, <<>>, FALSE, <<>>, PlainComment),
    ClipEvent(FALSE, TRUE, <<>>, <<>>, FALSE, <<>>, PlainRelative),
    ClipEvent(FALSE, TRUE, <<>>, <<>>, FALSE, <<>>, PlainCut),
    ClipEvent(FALSE, TRUE, <<>>, <<>>, FALSE, <<>>, <<>>) }

SpiceIds == {"s1", "s2"}
Throw == "<throw>"
\* what stash_ingredient_bytes_cmd may answer: an id, an empty id, an error
StashResults == SpiceIds \cup {"", Throw}

\* the image files the event carries: clipboardData.files, and
\* clipboardData.items when files holds no image
ingredientFiles(ev) ==
  LET fromFiles == SelectSeq(ev.files, LAMBDA f : f = "image")
      fromItems ==
        SelectSeq(ev.items,
                  LAMBDA it : it.kind = "file" /\ it.type = "image" /\ it.file)
  IN  IF Len(fromFiles) = 0 THEN fromItems ELSE fromFiles

\* the data:image/ URLs of the <img> tags of the text/html payload
dataUrls(ev) ==
  IF ev.html.present THEN SelectSeq(ev.html.srcs, LAMBDA s : s = "data") ELSE <<>>

\* a variant of PasteDispatch without the return of line 325: a text that is
\* no path list goes on to navigator.clipboard.read()
PasteDispatchFallsThrough(ev) ==
  IF ev.defaultPrevented \/ ~ev.clipboardData
  THEN [trace |-> <<>>, src |-> 0, pc |-> "done", left |-> 0]
  ELSE IF Len(ingredientFiles(ev)) > 0
  THEN [trace |-> <<1>>, src |-> 1, pc |-> "stash", left |-> Len(ingredientFiles(ev))]
  ELSE IF Len(dataUrls(ev)) > 0
  THEN [trace |-> <<1, 2>>, src |-> 2, pc |-> "fetch", left |-> Len(dataUrls(ev))]
  ELSE IF Len(ev.plain) > 0 /\ looksLikeImageFilePathList(ev.plain)
  THEN [trace |-> <<1, 2, 3>>, src |-> 3, pc |-> "rust", left |-> 0]
  ELSE [trace |-> <<1, 2, 3, 4>>, src |-> 0, pc |-> "nav", left |-> 0]

\* handleIngredientPaste up to its first await: the sources consulted, the
\* source that applied (0: none) and what the handler awaits next
PasteDispatch(ev) ==
  IF ev.defaultPrevented \/ ~ev.clipboardData
  THEN [trace |-> <<>>, src |-> 0, pc |-> "done", left |-> 0]
  ELSE IF Len(ingredientFiles(ev)) > 0
  THEN [trace |-> <<1>>, src |-> 1, pc |-> "stash", left |-> Len(ingredientFiles(ev))]
  ELSE IF Len(dataUrls(ev)) > 0
  THEN [trace |-> <<1, 2>>, src |-> 2, pc |-> "fetch", left |-> Len(dataUrls(ev))]
  ELSE IF Len(ev.plain) > 0
  THEN IF looksLikeImageFilePathList(ev.plain)
       THEN [trace |-> <<1, 2, 3>>, src |-> 3, pc |-> "rust", left |-> 0]
       ELSE [trace |-> <<1, 2, 3>>, src |-> 0, pc |-> "done", left |-> 0]
  ELSE [trace |-> <<1, 2, 3, 4>>, src |-> 0, pc |-> "nav", left |-> 0]

\* the dispatch of each of the paste events
Dispatched == [ev \in PasteEvents |-> PasteDispatch(ev)]

\* a paste whose handler still awaits something
Running(t) == t.pc \in {"stash", "fetch", "nav", "rust"}

\* an item of the ingredients list: its spice id (the preview URL, a fresh
\* object URL, is left out) and whether the paste that brought it began
\* under an earlier request than the one shown
Ingredient(id, earlier) == [spiceId |-> id, earlier |-> earlier]

\* paste i goes on as t, or has ended and leaves pastes
PasteStep(i, t) ==
  pastes' = IF Running(t) THEN [pastes EXCEPT ![i] = t] ELSE RemoveAt(pastes, i)

\* handleIngredientPaste(event), up to its first await.  A paste records the
\* event, the sources consulted (trace), the source that applied (src), what
\* it awaits (pc), the files or URLs still to stash (left), the items it has
\* added, and whether it began under an earlier request; got, in last only,
\* is what the stash command just answered
handleIngredientPaste(ev) ==
  /\ mounted
  /\ Len(pastes) < MaxPastes
  /\ LET d == Dispatched[ev]
         t == [kind |-> "paste", ev |-> ev, trace |-> d.trace, src |-> d.src,
               pc |-> d.pc, left |-> d.left, added |-> 0, earlier |-> FALSE,
               got |-> ""]
     IN  /\ pastes' = IF Running(t) THEN Append(pastes, t) ELSE pastes
         /\ last' = Ended("handleIngredientPaste", t)
  /\ UNCHANGED <<popupVars, formVars, customPrompts, sortVars, pendingToggles, historyVars, outsideVars>>

\* a variant of Addable that does not look for the id in the list
AddableUnchecked(ings, id) == id # ""

\* the check both loops make before they push: the id is not empty and no
\* item of the list has it
Addable(ings, id) == id # "" /\ ~HasSpice(ings, id)

\* one turn of the loop of handleIngredientFiles: stash_ingredient_bytes_cmd
\* answers for the next file (every file handed over is an image); an error
\* is reported and thrown on, which ends the paste
stashReturns(i, res) ==
  /\ i \in 1..Len(pastes)
  /\ pastes[i].pc = "stash"
  /\ LET t == pastes[i]
         add == res # Throw /\ Addable(ingredients, res)
         after == [t EXCEPT !.left = @ - 1,
                            !.added = IF add THEN @ + 1 ELSE @,
                            !.pc = IF res = Throw THEN "failed"
                                   ELSE IF t.left = 1 THEN "done" ELSE "stash"]
     IN  /\ ingredients' =
              IF add THEN Append(ingredients, Ingredient(res, t.earlier))
              ELSE ingredients
         /\ PasteStep(i, after)
         /\ UNCHANGED <<cNote, cToppings, customPrompts, sortVars>>
         /\ IF add THEN emitUpdate ELSE UNCHANGED <<note, toppings, spiceIds>>
         /\ last' = Ended("stashReturns", [after EXCEPT !.got = res])
  /\ UNCHANGED <<popupRest, pendingToggles, historyVars, outsideVars>>

\* one turn of the data-URL loop of handleIngredientPaste: fetch and stash
\* answer for the next URL; an error is caught and the loop goes on; the
\* update is emitted after the last URL when something was added
fetchReturns(i, res) ==
  /\ i \in 1..Len(pastes)
  /\ pastes[i].pc = "fetch"
  /\ LET t == pastes[i]
         add == res # Throw /\ Addable(ingredients, res)
         addedCount == IF add THEN t.added + 1 ELSE t.added
         after == [t EXCEPT !.left = @ - 1,
                            !.added = addedCount,
                            !.pc = IF t.left = 1 THEN "done" ELSE "fetch"]
     IN  /\ ingredients' =
              IF add THEN Append(ingredients, Ingredient(res, t.earlier))
              ELSE ingredients
         /\ PasteStep(i, after)
         /\ UNCHANGED <<cNote, cToppings, customPrompts, sortVars>>
         /\ IF t.left = 1 /\ addedCount > 0
            THEN emitUpdate ELSE UNCHANGED <<note, toppings, spiceIds>>
         /\ last' = Ended("fetchReturns", [after EXCEPT !.got = res])
  /\ UNCHANGED <<popupRest, pendingToggles, historyVars, outsideVars>>

\* readIngredientsFromNavigatorClipboard() returns n image files (none when
\* the clipboard API is missing or fails); with none the handler goes on to
\* addIngredientsFromRustClipboard
navReturns(i, n) ==
  /\ i \in 1..Len(pastes)
  /\ pastes[i].pc = "nav"
  /\ LET after ==
           IF n > 0
           THEN [pastes[i] EXCEPT !.src = 4, !.pc = "stash", !.left = n]
           ELSE [pastes[i] EXCEPT !.src = 5, !.pc = "rust", !.trace = Append(@, 5)]
     IN  PasteStep(i, after) /\ last' = Ended("navReturns", after)
  /\ UNCHANGED <<popupVars, formVars, customPrompts, sortVars, pendingToggles, historyVars, outsideVars>>

\* blocks read_clipboard_ingredients_cached may return: complete says that
\* bytes and dish_type are there
Block(id, complete) == [spice_id |-> id, complete |-> complete]

RustBlockLists ==
  { <<>>, <<Block("s1", TRUE)>>, <<Block("s2", TRUE), Block("s2", TRUE)>>,
    <<Block("", TRUE), Block("s1", FALSE), Block("s2", TRUE)>> }

\* the loop of addIngredientsFromRustClipboard over the blocks
RECURSIVE AddBlocks(_, _, _)
AddBlocks(ings, blocks, earlier) ==
  IF blocks = <<>> THEN ings
  ELSE LET block == Head(blocks)
           skip == \/ block.spice_id = ""
                   \/ ~block.complete
                   \/ HasSpice(ings, block.spice_id)
       IN  AddBlocks(IF skip THEN ings
                     ELSE Append(ings, Ingredient(block.spice_id, earlier)),
                     Tail(blocks), earlier)

\* addIngredientsFromRustClipboard once read_clipboard_ingredients_cached has
\* returned its blocks
rustReturns(i, blocks) ==
  /\ i \in 1..Len(pastes)
  /\ pastes[i].pc = "rust"
  /\ LET t == pastes[i]
         after == AddBlocks(ingredients, blocks, t.earlier)
         addedCount == Len(after) - Len(ingredients)
         ended == [t EXCEPT !.added = addedCount, !.pc = "done"]
     IN  /\ ingredients' = after
         /\ PasteStep(i, ended)
         /\ UNCHANGED <<cNote, cToppings, customPrompts, sortVars>>
         /\ IF addedCount > 0 THEN emitUpdate ELSE UNCHANGED <<note, toppings, spiceIds>>
         /\ last' = Ended("rustReturns", ended)
  /\ UNCHANGED <<popupRest, pendingToggles, historyVars, outsideVars>>

\* read_clipboard_ingredients_cached fails: the error is reported, nothing is added
rustFails(i) ==
  /\ i \in 1..Len(pastes)
  /\ pastes[i].pc = "rust"
  /\ PasteStep(i, [pastes[i] EXCEPT !.pc = "failed"])
  /\ last' = Ended("rustFails", [pastes[i] EXCEPT !.pc = "failed"])
  /\ UNCHANGED <<popupVars, formVars, customPrompts, sortVars, pendingToggles, historyVars, outsideVars>>

(* ========== McpPopup (ReplySettings.vue, second script block) ========= *)
\* '用户确认继续', the note of a response that would otherwise be empty
DefaultConfirmNote == <<"<default-confirm-note>">>

\* the fixed text of the enhance prompt around the trimmed note
EnhanceHead == <<"<enhance-instructions>", "<lquote>">>
EnhanceTail == <<"<rquote>">>

\* a variant of canSubmit that does not trim the note
canSubmitUntrimmed ==
  IF hasOptions
  THEN Len(toppings) > 0 \/ Len(note) > 0 \/ Len(spiceIds) > 0
  ELSE Len(note) > 0 \/ Len(spiceIds) > 0

canSubmit ==
  IF hasOptions
  THEN Len(toppings) > 0 \/ Len(Trim(note)) > 0 \/ Len(spiceIds) > 0
  ELSE Len(Trim(note)) > 0 \/ Len(spiceIds) > 0

\* ticket: { cooked_at, ticket_id: props.request?.id || null, station };
\* cooked_at, the time of the call, is left out
Ticket(station) ==
  [ticket_id |-> IF request.present /\ request.id # "" THEN Some(request.id) ELSE NoId,
   station |-> station]

\* a variant of SubmitResponse that sends the note as it was typed
SubmitResponseUntrimmed ==
  [note |-> IF Trim(note) # <<>> THEN Some(note) ELSE NoText,
   toppings |-> toppings,
   ingredients |-> [k \in 1..Len(spiceIds) |-> [spice_id |-> spiceIds[k]]],
   ticket |-> [ticket_id |-> IF request.present /\ request.id # ""
                             THEN Some(request.id) ELSE NoId,
               station |-> "popup"]]

\* a variant of SubmitResponse without the default note
SubmitResponseNoDefault ==
  [note |-> IF Trim(note) # <<>> THEN Some(Trim(note)) ELSE NoText,
   toppings |-> toppings,
   ingredients |-> [k \in 1..Len(SelectSeq(spiceIds, LAMBDA t : t # "")) |->
                      [spice_id |-> SelectSeq(spiceIds, LAMBDA t : t # "")[k]]],
   ticket |-> [ticket_id |-> IF request.present /\ request.id # ""
                             THEN Some(request.id) ELSE NoId,
               station |-> "popup"]]

\* the response handleSubmit builds
SubmitResponse ==
  LET kept == SelectSeq(spiceIds, LAMBDA t : t # "")
      response ==
        [note |-> IF Trim(note) # <<>> THEN Some(Trim(note)) ELSE NoText,
         toppings |-> toppings,
         ingredients |-> [k \in 1..Len(kept) |-> [spice_id |-> kept[k]]],
         ticket |-> Ticket("popup")]
  IN  IF ~response.note.some /\ Len(response.toppings) = 0
         /\ Len(response.ingredients) = 0
      THEN [response EXCEPT !.note = Some(DefaultConfirmNote)]
      ELSE response

\* a variant of ContinueResponse that takes the selected options along
ContinueResponseWithToppings ==
  [note |-> Some(continuePrompt), toppings |-> toppings, ingredients |-> <<>>,
   ticket |-> [ticket_id |-> IF request.present /\ request.id # ""
                             THEN Some(request.id) ELSE NoId,
               station |-> "popup_continue"]]

\* the response handleContinue builds
ContinueResponse ==
  [note |-> Some(continuePrompt), toppings |-> <<>>, ingredients |-> <<>>,
   ticket |-> Ticket("popup_continue")]

\* the response handleEnhance builds
EnhanceResponse ==
  [note |-> Some(EnhanceHead \o Trim(note) \o EnhanceTail), toppings |-> <<>>,
   ingredients |-> <<>>, ticket |-> Ticket("popup_enhance")]

\* a handler past its guard: submitting is set, the response is built, and
\* either the mock delay or send_mcp_response is awaited.  trace lists what
\* the invocation has done and met: the commands invoked, "rejected" for an
\* awaited command that failed, "error" for message.error, "emit" for
\* emit('response', response)
Begin(kind, response) ==
  /\ Len(calls) < MaxCalls
  /\ submitting' = TRUE
  /\ calls' =
       Append(calls,
              [kind |-> "call", handler |-> kind, response |-> response,
               mock |-> mockMode,
               pc |-> IF mockMode THEN "mock" ELSE "send",
               trace |-> IF mockMode THEN <<>> ELSE <<"send_mcp_response">>])

handlerFrame ==
  UNCHANGED <<request, mockMode, toppings, note, spiceIds, continuePrompt,
              inputVars, historyVars, outsideVars>>

\* the submit button, or a Telegram send_pressed event
handleSubmit ==
  /\ IF ~canSubmit \/ submitting
     THEN UNCHANGED <<submitting, calls>> /\ last' = Refused("handleSubmit")
     ELSE Begin("submit", SubmitResponse) /\ last' = Did("handleSubmit")
  /\ handlerFrame

\* the continue button, or a Telegram continue_pressed event
handleContinue ==
  /\ IF submitting
     THEN UNCHANGED <<submitting, calls>> /\ last' = Refused("handleContinue")
     ELSE Begin("continue", ContinueResponse) /\ last' = Did("handleContinue")
  /\ handlerFrame

\* the enhance button
handleEnhance ==
  /\ IF submitting
     THEN UNCHANGED <<submitting, calls>> /\ last' = Refused("handleEnhance")
     ELSE Begin("enhance", EnhanceResponse) /\ last' = Did("handleEnhance")
  /\ handlerFrame

\* a variant of Settle that emits the response as soon as send_mcp_response
\* has succeeded
SettleEmitsEarly(c, ok) ==
  IF ~ok
  THEN [c EXCEPT !.pc = "failed", !.trace = @ \o <<"rejected", "error">>]
  ELSE [c EXCEPT !.pc = "done", !.trace = Append(@, "emit")]

\* a variant of Settle that invokes the rejected command once more
SettleRetries(c, ok) ==
  IF ~ok
  THEN [c EXCEPT !.trace = @ \o <<"rejected",
                                  IF c.pc = "exit" THEN "exit_app"
                                  ELSE "send_mcp_response">>]
  ELSE IF c.pc = "send"
  THEN [c EXCEPT !.pc = "exit", !.trace = Append(@, "exit_app")]
  ELSE [c EXCEPT !.pc = "done", !.trace = Append(@, "emit")]

\* what a handler does when the step call c awaits ends: after the mock
\* delay or a successful exit_app the response is emitted; after a successful
\* send_mcp_response exit_app is invoked; a rejection is caught and reported
Settle(c, ok) ==
  IF ~ok
  THEN [c EXCEPT !.pc = "failed", !.trace = @ \o <<"rejected", "error">>]
  ELSE IF c.pc = "send"
  THEN [c EXCEPT !.pc = "exit", !.trace = Append(@, "exit_app")]
  ELSE [c EXCEPT !.pc = "done", !.trace = Append(@, "emit")]

Awaiting(c) == c.pc \in {"mock", "send", "exit"}

\* a variant of Step that clears submitting only when nothing was rejected
StepWithoutFinally(op, i, ok) ==
  /\ IF Awaiting(Settle(calls[i], ok))
     THEN calls' = [calls EXCEPT ![i] = Settle(calls[i], ok)] /\ UNCHANGED submitting
     ELSE calls' = RemoveAt(calls, i) /\ submitting' = (submitting /\ ~ok)
  /\ last' = IF ok THEN Ended(op, Settle(calls[i], ok))
             ELSE Failed(op, Settle(calls[i], ok))

\* call i takes its step; when the handler returns (finally: submitting is
\* cleared) the call leaves calls
Step(op, i, ok) ==
  LET c == Settle(calls[i], ok)
  IN  /\ IF Awaiting(c)
         THEN calls' = [calls EXCEPT ![i] = c] /\ UNCHANGED submitting
         ELSE calls' = RemoveAt(calls, i) /\ submitting' = FALSE
      /\ last' = IF ok THEN Ended(op, c) ELSE Failed(op, c)

\* send_mcp_response returns or fails
sendReturns(i, ok) ==
  /\ i \in 1..Len(calls)
  /\ calls[i].pc = "send"
  /\ Step("sendReturns", i, ok)
  /\ handlerFrame

\* exit_app returns or fails
exitReturns(i, ok) ==
  /\ i \in 1..Len(calls)
  /\ calls[i].pc = "exit"
  /\ Step("exitReturns", i, ok)
  /\ handlerFrame

\* the one-second delay of mock mode ends
mockDelayEnds(i) ==
  /\ i \in 1..Len(calls)
  /\ calls[i].pc = "mock"
  /\ Step("mockDelayEnds", i, TRUE)
  /\ handlerFrame

\* McpPopup.handleOptionToggle (Telegram option_toggled): the option is
\* toggled and, when PopupInput is there, handed to its updateData, which
\* emits the update
handleOptionToggle(option) ==
  /\ IF mounted
     THEN /\ cToppings' = ToggleOption(toppings, option)
          /\ UNCHANGED <<cNote, ingredients, customPrompts, sortVars>>
          /\ emitUpdate
     ELSE /\ toppings' = ToggleOption(toppings, option)
          /\ UNCHANGED <<note, spiceIds, formVars, customPrompts, sortVars>>
  /\ last' = Did("handleOptionToggle")
  /\ UNCHANGED <<popupRest, pasteVars, historyVars, outsideVars>>

\* McpPopup.handleTextUpdate (Telegram text_updated)
handleTextUpdate(text) ==
  /\ IF mounted
     THEN /\ cNote' = text
          /\ UNCHANGED <<cToppings, ingredients, customPrompts, sortVars>>
          /\ emitUpdate
     ELSE /\ note' = text
          /\ UNCHANGED <<toppings, spiceIds, formVars, customPrompts, sortVars>>
  /\ last' = Did("handleTextUpdate")
  /\ UNCHANGED <<popupRest, pasteVars, historyVars, outsideVars>>

\* loadReplyConfig once get_reply_config has returned a configuration:
\* continuePrompt = replyConfig.continue_prompt ?? the default
loadReplyConfig(prompt) ==
  /\ continuePrompt' = IF prompt.some THEN prompt.val ELSE DefaultContinuePrompt
  /\ continuePrompt' # continuePrompt
  /\ last' = Did("loadReplyConfig")
  /\ UNCHANGED <<request, mockMode, submitting, toppings, note, spiceIds, calls,
                 inputVars, historyVars, outsideVars>>

\* watch(() => props.appConfig.reply): the settings page changed the prompt
appConfigReplyChanges(prompt) ==
  /\ continuePrompt' = prompt
  /\ continuePrompt' # continuePrompt
  /\ last' = Did("appConfigReplyChanges")
  /\ UNCHANGED <<request, mockMode, submitting, toppings, note, spiceIds, calls,
                 inputVars, historyVars, outsideVars>>

\* watch(() => props.request): a request r replaces the current one.
\*   r is a request: resetForm() clears the form, calls PopupInput.reset()
\*     when PopupInput is there (it clears itself and emits the update) and
\*     clears submitting; the pastes still awaited began under the request
\*     that is gone;
\*   r is null: the watcher does nothing, PopupInput is unmounted and what its
\*     pastes and saves still await no longer reaches the popup;
\*   a request after null: PopupInput is mounted anew.
watchRequest(r) ==
  /\ r.present \/ request.present
  /\ request' = r
  /\ cNote' = <<>>
  /\ cToppings' = <<>>
  /\ ingredients' = <<>>
  /\ customPrompts' = IF mounted /\ r.present THEN customPrompts ELSE <<>>
  /\ pendingToggles' = IF mounted /\ r.present THEN pendingToggles ELSE {}
  /\ sortablePrompts' = IF mounted /\ r.present THEN sortablePrompts ELSE <<>>
  /\ promptSaves' = IF mounted /\ r.present THEN promptSaves ELSE <<>>
  /\ pastes' =
       IF mounted /\ r.present
       THEN [k \in 1..Len(pastes) |-> [pastes[k] EXCEPT !.earlier = TRUE]]
       ELSE <<>>
  /\ IF r.present
     THEN /\ IF mounted
             THEN emitUpdate
             ELSE note' = <<>> /\ toppings' = <<>> /\ spiceIds' = <<>>
          /\ submitting' = FALSE
     ELSE UNCHANGED <<note, toppings, spiceIds, submitting>>
  /\ last' = Ended("watchRequest",
                   Release(0, IF mounted THEN ingredients ELSE <<>>))
  /\ UNCHANGED <<mockMode, continuePrompt, calls, historyVars, outsideVars>>

\* Telegram events the listener may receive
TelegramEvents ==
  [type : {"option_toggled"}, option : {"B"}, text : {<<>>}]
    \cup [type : {"text_updated"}, option : {""}, text : NoteTexts]
    \cup [type : {"continue_pressed", "send_pressed", "other"},
          option : {""}, text : {<<>>}]

handleTelegramEvent(event) ==
  CASE event.type = "option_toggled" -> handleOptionToggle(event.option)
    [] event.type = "text_updated" -> handleTextUpdate(event.text)
    [] event.type = "continue_pressed" -> handleContinue
    [] event.type = "send_pressed" -> handleSubmit
    [] OTHER -> /\ last' = Did("handleTelegramEvent")
                /\ UNCHANGED <<popupVars, inputVars, historyVars, outsideVars>>

(* ================= HistoryTab (tabs/HistoryTab.vue) =================== *)
\* String.prototype.replaceAll for a one-character pattern
ReplaceAll(s, from, to) == [k \in 1..Len(s) |-> IF s[k] = from THEN to ELSE s[k]]

\* a variant of normalizeSearchText that keeps the case
normalizeKeepCase(input) ==
  ReplaceAll(ReplaceAll(ReplaceAll(Trim(input), FWColon, ":"), FWSlash, "/"),
             FWSpace, SP)

normalizeSearchText(input) ==
  ToLowerCase(
    ReplaceAll(ReplaceAll(ReplaceAll(Trim(input), FWColon, ":"), FWSlash, "/"),
               FWSpace, SP))

DigitChars == <<"0", "1", "2", "3", "4", "5", "6", "7", "8", "9">>

\* String(n) for a natural number
RECURSIVE NumberText(_)
NumberText(n) ==
  IF n < 10 THEN <<DigitChars[n + 1]>>
  ELSE NumberText(n \div 10) \o <<DigitChars[(n % 10) + 1]>>

\* padStart(2, '0')
padStart2(s) == IF Len(s) < 2 THEN <<"0">> \o s ELSE s

\* timestamps the backend may have stored: one that parses, one that does
\* not, and none
StampMarch == <<"2", "4", "-", "0", "3", "T", "Z">>
StampBad == <<"N", "a", "/", "3">>

\* new Date(ts), seen in local time; only StampMarch parses
NewDate(ts) ==
  IF ts = StampMarch
  THEN [valid |-> TRUE, year |-> 2024, month |-> 2, date |-> 5,
        hours |-> 7, minutes |-> 8, seconds |-> 19]
  ELSE [valid |-> FALSE, year |-> 0, month |-> 0, date |-> 0,
        hours |-> 0, minutes |-> 0, seconds |-> 0]

formatTimeForSearch(ts) ==
  LET d == NewDate(ts)
      y == NumberText(d.year)
      m == NumberText(d.month + 1)
      day == NumberText(d.date)
      hh == padStart2(NumberText(d.hours))
      mm == padStart2(NumberText(d.minutes))
      ss == padStart2(NumberText(d.seconds))
  IN  IF ~d.valid THEN ts
      ELSE y \o <<"/">> \o m \o <<"/">> \o day \o <<SP>> \o hh \o <<":">> \o mm
             \o <<":">> \o ss \o <<SP>> \o hh \o <<":">> \o mm \o <<SP>> \o y
             \o <<"/">> \o m

\* haystack.includes(q)
includes(haystack, q) ==
  \E i \in 0..(Len(haystack) - Len(q)) : SubSeq(haystack, i + 1, i + Len(q)) = q

\* x || '' for an optional text
OrEmpty(x) == IF x.some THEN x.val ELSE <<>>

\* the haystack of one entry
haystackOf(e) ==
  normalizeSearchText(
    Join(<<e.id, e.preview, OrEmpty(e.request_id), OrEmpty(e.source), e.timestamp,
           formatTimeForSearch(e.timestamp)>>, <<SP>>))

\* computed filteredEntries
filteredEntries ==
  LET q == normalizeSearchText(search)
  IN  IF q = <<>> THEN entries
      ELSE SelectSeq(entries, LAMBDA e : includes(haystackOf(e), q))

HistoryEntry(id, timestamp, request_id, source, preview) ==
  [id |-> id, timestamp |-> timestamp, request_id |-> request_id,
   source |-> source, preview |-> preview]

\* entries list_mcp_history_entries may return
EntryA == HistoryEntry(<<"A", "1">>, StampMarch, Some(<<"r", "9">>), NoText, <<"H", "i", FWColon>>)
EntryB == HistoryEntry(<<"b">>, StampBad, NoText, Some(<<"T", "g">>), <<>>)
EntryC == HistoryEntry(<<"c", FWSpace>>, <<>>, Some(<<>>), Some(<<FWSlash, "1">>), <<"a", SP, "1">>)

EntryPool == {EntryA, EntryB, EntryC}

\* the lists the backend may return: up to two different entries in any order
EntryLists ==
  {<<>>} \cup {<<e>> : e \in EntryPool}
    \cup {<<e, f>> : e \in EntryPool, f \in EntryPool}

\* what the user may type into the search box
SearchTexts ==
  { <<>>, <<SP>>, <<FWSpace>>, <<"a">>, <<SP, "A", "1", SP>>, <<"1", SP, "h">>,
    <<"0", "7", FWColon, "0", "8">>, <<"2", "0", "2", "4", "/", "3", "/", "5">>,
    <<":", "1", "9", SP, "0", "7">>, <<"t", "G">>, <<"n", "a", FWSlash, "3">>,
    <<"/", "1">>, <<"c", SP>>, <<"z">>, <<"9", FWSpace, FWSpace>> }

popupAndInput == <<popupVars, inputVars>>

\* list || [] for the answer of the backend
OrEmptyList(list) == IF list.some THEN list.val ELSE <<>>

\* loadEntries once list_mcp_history_entries has answered: entries = list || []
loadEntries(list) ==
  /\ entries' = OrEmptyList(list)
  /\ last' = Did("loadEntries")
  /\ UNCHANGED <<search, popupAndInput, selectionVars, outsideVars>>

\* list_mcp_history_entries fails: the error is reported, the list stays
loadEntriesFails ==
  /\ last' = Refused("loadEntries")
  /\ UNCHANGED <<entries, search, popupAndInput, selectionVars, outsideVars>>

\* v-model of the search box
setSearch(v) ==
  /\ v # search
  /\ search' = v
  /\ last' = Did("setSearch")
  /\ UNCHANGED <<entries, popupAndInput, selectionVars, outsideVars>>

(* ------------- HistoryTab: the time range and the selection ----------- *)
\* the most calls of HistoryTab that await the backend at one time
MaxHistoryCalls == 2

\* v-model of the date-time range picker: null or [startMs, endMs]
NoRange == [some |-> FALSE, val |-> <<0, 0>>]
RangeMs == {0, 7, 250}
Ranges == {NoRange} \cup {Some(<<a, b>>) : a \in RangeMs, b \in RangeMs}

\* selectedDetail: null or the detail of an entry
NoDetail == [some |-> FALSE, val |-> <<>>]

\* String(n).padStart(3, '0')
padStart3(s) ==
  IF Len(s) >= 3 THEN s ELSE IF Len(s) = 2 THEN <<"0">> \o s ELSE <<"0", "0">> \o s

\* new Date(ms).toISOString(), for a time in the first second of 1970
toISOString(ms) ==
  <<"1970-01-01T00:00:00", ".">> \o padStart3(NumberText(ms)) \o <<"Z">>

\* a variant of getRangeIso that takes no range for the range from 0 to 0
getRangeIsoOfNull ==
  [start |-> Some(toISOString(range.val[1])), end |-> Some(toISOString(range.val[2]))]

\* getRangeIso: !startMs holds for the time 0 too
getRangeIso ==
  IF ~range.some \/ range.val[1] = 0 \/ range.val[2] = 0
  THEN [start |-> NoText, end |-> NoText]
  ELSE [start |-> Some(toISOString(range.val[1])),
        end |-> Some(toISOString(range.val[2]))]

\* '请先选择开始时间和结束时间'
RangeWarning == "<select the start and the end time first>"

\* invoke(cmd, args) of HistoryTab, still awaited by the function op
HistoryCall(op, cmd, args) ==
  [kind |-> "invoke", op |-> op, cmd |-> cmd, args |-> args]

\* exportRangeZip and deleteRange up to their await
rangeCommand(op, cmd) ==
  LET iso == getRangeIso
      call == HistoryCall(op, cmd, [start |-> iso.start.val, end |-> iso.end.val])
  IN  /\ IF ~iso.start.some \/ iso.start.val = <<>>
            \/ ~iso.end.some \/ iso.end.val = <<>>
         THEN /\ last' = Failed(op, Message("warning", RangeWarning))
              /\ UNCHANGED historyCalls
         ELSE /\ Len(historyCalls) < MaxHistoryCalls
              /\ historyCalls' = Append(historyCalls, call)
              /\ last' = Ended(op, call)
      /\ UNCHANGED <<entries, search, range, selectedId, selectedDetail,
                     popupAndInput, outsideVars>>

exportRangeZip == rangeCommand("exportRangeZip", "export_mcp_history_by_time_range_zip")

deleteRange == rangeCommand("deleteRange", "delete_mcp_history_by_time_range")

\* v-model of the range picker
setRange(r) ==
  /\ r # range
  /\ range' = r
  /\ last' = Did("setRange")
  /\ UNCHANGED <<entries, search, selectedId, selectedDetail, historyCalls,
                 popupAndInput, outsideVars>>

\* openEntry up to its await: a click on an entry of the list
openEntry(id) ==
  /\ \E k \in 1..Len(entries) : entries[k].id = id
  /\ Len(historyCalls) < MaxHistoryCalls
  /\ selectedId' = id
  /\ historyCalls' =
       Append(historyCalls, HistoryCall("openEntry", "get_mcp_history_entry", [id |-> id]))
  /\ last' = Did("openEntry")
  /\ UNCHANGED <<entries, search, range, selectedDetail, popupAndInput, outsideVars>>

\* the call i of HistoryTab that awaits cmd
AwaitsCommand(i, cmd) ==
  /\ i \in 1..Len(historyCalls)
  /\ historyCalls[i].cmd = cmd

\* get_mcp_history_entry answers or fails
openEntryReturns(i, ok) ==
  /\ AwaitsCommand(i, "get_mcp_history_entry")
  /\ selectedDetail' = IF ok THEN Some([summary |-> historyCalls[i].args.id])
                       ELSE selectedDetail
  /\ historyCalls' = RemoveAt(historyCalls, i)
  /\ last' = IF ok THEN Did("openEntryReturns")
             ELSE Failed("openEntryReturns", Message("error", "<open failed>"))
  /\ UNCHANGED <<entries, search, range, selectedId, popupAndInput, outsideVars>>

\* export_mcp_history_by_time_range_zip answers or fails
exportRangeReturns(i, ok) ==
  /\ AwaitsCommand(i, "export_mcp_history_by_time_range_zip")
  /\ historyCalls' = RemoveAt(historyCalls, i)
  /\ last' = IF ok THEN Ended("exportRangeReturns", Message("success", "<exported>"))
             ELSE Failed("exportRangeReturns", Message("error", "<export failed>"))
  /\ UNCHANGED <<entries, search, range, selectedId, selectedDetail,
                 popupAndInput, outsideVars>>

\* delete_mcp_history_by_time_range answers (the selection is cleared and
\* loadEntries is awaited) or fails
deleteRangeReturns(i, ok) ==
  /\ AwaitsCommand(i, "delete_mcp_history_by_time_range")
  /\ IF ok
     THEN /\ selectedId' = <<>>
          /\ selectedDetail' = NoDetail
          /\ historyCalls' =
               [historyCalls EXCEPT ![i] =
                  HistoryCall(@.op, "list_mcp_history_entries", [limit |-> 500])]
          /\ last' = Ended("deleteRangeReturns", Message("success", "<deleted>"))
     ELSE /\ historyCalls' = RemoveAt(historyCalls, i)
          /\ last' = Failed("deleteRangeReturns", Message("error", "<delete failed>"))
          /\ UNCHANGED <<selectedId, selectedDetail>>
  /\ UNCHANGED <<entries, search, range, popupAndInput, outsideVars>>

\* list_mcp_history_entries answers the loadEntries that call i awaits
reloadReturns(i, list) ==
  /\ AwaitsCommand(i, "list_mcp_history_entries")
  /\ entries' = OrEmptyList(list)
  /\ historyCalls' = RemoveAt(historyCalls, i)
  /\ last' = Did("reloadReturns")
  /\ UNCHANGED <<search, range, selectedId, selectedDetail, popupAndInput, outsideVars>>

\* list_mcp_history_entries fails: loadEntries reports it and returns
reloadFails(i) ==
  /\ AwaitsCommand(i, "list_mcp_history_entries")
  /\ historyCalls' = RemoveAt(historyCalls, i)
  /\ last' = Failed("reloadFails", Message("error", "<load failed>"))
  /\ UNCHANGED <<entries, search, range, selectedId, selectedDetail,
                 popupAndInput, outsideVars>>

\* deleteSelected up to its await: without a selection it returns at once
deleteSelected ==
  IF selectedId = <<>>
  THEN /\ last' = Refused("deleteSelected")
       /\ UNCHANGED <<historyVars, popupAndInput, outsideVars>>
  ELSE /\ Len(historyCalls) < MaxHistoryCalls
       /\ historyCalls' =
            Append(historyCalls,
                   HistoryCall("deleteSelected", "delete_mcp_history_entry",
                               [id |-> selectedId]))
       /\ last' = Ended("deleteSelected", historyCalls'[Len(historyCalls')])
       /\ UNCHANGED <<entries, search, range, selectedId, selectedDetail,
                      popupAndInput, outsideVars>>

\* a variant of deleteSelectedReturns whose catch block reloads the list too
deleteSelectedReturnsReloading(i, ok) ==
  /\ AwaitsCommand(i, "delete_mcp_history_entry")
  /\ historyCalls' =
       [historyCalls EXCEPT ![i] =
          HistoryCall(@.op, "list_mcp_history_entries", [limit |-> 500])]
  /\ IF ok
     THEN /\ selectedId' = <<>>
          /\ selectedDetail' = NoDetail
          /\ last' = Ended("deleteSelectedReturns", Message("success", "<deleted>"))
     ELSE /\ last' = Failed("deleteSelectedReturns", Message("error", "<delete failed>"))
          /\ UNCHANGED <<selectedId, selectedDetail>>
  /\ UNCHANGED <<entries, search, range, popupAndInput, outsideVars>>

\* delete_mcp_history_entry answers (message.success, the selection is
\* cleared and loadEntries is awaited) or fails (message.error, nothing else)
deleteSelectedReturns(i, ok) ==
  /\ AwaitsCommand(i, "delete_mcp_history_entry")
  /\ IF ok
     THEN /\ selectedId' = <<>>
          /\ selectedDetail' = NoDetail
          /\ historyCalls' =
               [historyCalls EXCEPT ![i] =
                  HistoryCall(@.op, "list_mcp_history_entries", [limit |-> 500])]
          /\ last' = Ended("deleteSelectedReturns", Message("success", "<deleted>"))
     ELSE /\ historyCalls' = RemoveAt(historyCalls, i)
          /\ last' = Failed("deleteSelectedReturns", Message("error", "<delete failed>"))
          /\ UNCHANGED <<selectedId, selectedDetail>>
  /\ UNCHANGED <<entries, search, range, popupAndInput, outsideVars>>

(* ======== ReplySettings (ReplySettings.vue, first script block) ======= *)
\* a JavaScript number of the wait threshold: finite (n, in the unit the
\* holder says), NaN or an infinity; null for the input field once emptied
Num(n) == [kind |-> "num", n |-> n]
NaN == [kind |-> "nan", n |-> 0]
Infinite == [kind |-> "inf", n |-> 0]
Null == [kind |-> "null", n |-> 0]

\* ref(1800): the field before anything is loaded, and the fallback of
\* loadConfig
DefaultWaitSeconds == 1800

\* what the number input may hold, in tenths of a second
FieldValues ==
  {Null, NaN} \cup {Num(t) : t \in {-15, -10, -1, 0, 4, 10, 15, 19, 20, 30, 18000}}

\* what get_interaction_wait_ms may answer, as Number(waitMs): milliseconds
StoredValues ==
  {NaN, Infinite} \cup {Num(ms) : ms \in {-700, 0, 400, 499, 500, 1000, 1499, 1500,
                                         2000, 7000, 1800000}}

Max(a, b) == IF a >= b THEN a ELSE b

\* Math.max(0, Math.floor(interactionWaitSeconds.value || 0)) for a field
\* that holds null, NaN or a finite number, in tenths of a second
SecondsToSend(v) ==
  IF v.kind \in {"null", "nan"} THEN 0 ELSE Max(0, v.n \div 10)

\* a variant of SecondsShown that cuts the milliseconds off
SecondsShownFloored(ms) ==
  IF ms.kind = "num" THEN Max(0, ms.n \div 1000) ELSE DefaultWaitSeconds

\* Number.isFinite(ms) ? Math.max(0, Math.round(ms / 1000)) : 1800
SecondsShown(ms) ==
  IF ms.kind = "num" THEN Max(0, (ms.n + 500) \div 1000) ELSE DefaultWaitSeconds

\* the variables updateInteractionWaitSeconds and loadConfig leave alone
settingsFrame ==
  UNCHANGED <<popupAndInput, historyVars, install, promptCall>>

\* the number input emits update:value: v-model stores v in the field, then
\* updateInteractionWaitSeconds sends it; a rejected set_interaction_wait_ms
\* is caught and logged
updateInteractionWaitSeconds(v, ok) ==
  LET call == [kind |-> "invoke", cmd |-> "set_interaction_wait_ms",
               args |-> [waitMs |-> SecondsToSend(v) * 1000]]
  IN  /\ interactionWaitSeconds' = v
      /\ storedWaitMs' = IF ok THEN Num(call.args.waitMs) ELSE storedWaitMs
      /\ last' = IF ok THEN Ended("updateInteractionWaitSeconds", call)
                 ELSE Failed("updateInteractionWaitSeconds", call)
      /\ settingsFrame

\* loadConfig (onMounted): get_reply_config, then get_interaction_wait_ms;
\* when either is rejected the field keeps its value
loadConfig(ok) ==
  /\ interactionWaitSeconds' =
       IF ok THEN Num(SecondsShown(storedWaitMs) * 10) ELSE interactionWaitSeconds
  /\ last' = IF ok THEN Did("loadConfig") ELSE Refused("loadConfig")
  /\ UNCHANGED storedWaitMs
  /\ settingsFrame

(* ===== the install scripts (install-universal.sh, unnamed/part_000) === *)
\* install-universal.sh and the two simple scripts of unnamed/part_000 (the
\* first installs devkit-ui / devkit-mcp, the second sanshu-ui / sanshu-mcp)
Scripts == {"universal", "simple-devkit", "simple-sanshu"}

\* the two binaries, by what they are: <name>-ui and <name>-mcp
Roles == {"ui", "mcp"}

\* values of $OSTYPE and of $HOME the scripts may meet
OsTypes == {"darwin23", "linux-gnu", "msys", "freebsd14"}
Homes == {"/home/u", ""}

\* the status of a command that failed, which set -e makes the script's
FailCodes == {1, 101}

\* case "$OSTYPE" in ... esac
OsOf(ostype) ==
  CASE ostype = "darwin23" -> "macos"
    [] ostype = "linux-gnu" -> "linux"
    [] ostype = "msys" -> "windows"
    [] OTHER -> "unknown"

\* a variant of InstallDir that installs the MCP server system-wide
InstallDirApart(run) ==
  IF run.pc = "cp-mcp" THEN <<"/usr/local/bin">> ELSE <<run.home, "/.local/bin">>

\* INSTALL_DIR of the macOS branch, BIN_DIR everywhere else
InstallDir(run) ==
  IF run.script = "universal" /\ run.os = "macos"
  THEN <<"/usr/local/bin">>
  ELSE <<run.home, "/.local/bin">>

\* the script goes on at pc
Goes(pc) == install' = [install EXCEPT !.pc = pc]

\* exit code, or a failed command under set -e
Exits(code) ==
  install' = [install EXCEPT !.pc = "exit", !.exit = [done |-> TRUE, code |-> code]]

\* a command that set -e guards: the script goes on when it succeeds
Guarded(ok, code, next) == IF ok THEN install' = next ELSE Exits(code)

installFrame ==
  UNCHANGED <<popupAndInput, historyVars, interactionWaitSeconds, storedWaitMs,
              promptCall>>

At(pc) == ~install.exit.done /\ install.pc = pc

\* install-universal.sh 10-17
detectOS ==
  /\ At("os")
  /\ IF OsOf(install.ostype) = "unknown"
     THEN Exits(1)
     ELSE install' = [install EXCEPT !.os = OsOf(install.ostype), !.pc = "tools"]
  /\ last' = Did("detectOS")
  /\ installFrame

\* check_command cargo, check_command pnpm; for cmd in cargo pnpm
checkTools ==
  /\ At("tools")
  /\ IF {"cargo", "pnpm"} \subseteq install.tools
     THEN Goes(IF install.script = "simple-sanshu" THEN "build1" ELSE "tauri")
     ELSE Exits(1)
  /\ last' = Did("checkTools")
  /\ installFrame

\* if ! cargo tauri --version; then cargo install tauri-cli ...; fi
ensureTauriCli(ok, code) ==
  /\ At("tauri")
  /\ ok \/ ~install.tauriCli
  /\ Guarded(ok, code, [install EXCEPT !.tauriCli = TRUE, !.pc = "build1"])
  /\ last' = Did("ensureTauriCli")
  /\ installFrame

\* the two build commands (cargo tauri build --no-bundle and cargo build
\* --release --bin <name>-mcp; pnpm build and cargo build --release); made
\* holds the binaries the command writes to target/release
build(ok, code, made) ==
  /\ At("build1") \/ At("build2")
  /\ Guarded(ok, code,
             [install EXCEPT !.release = @ \cup made,
                             !.pc = IF install.pc = "build1" THEN "build2" ELSE "check"])
  /\ last' = Did("build")
  /\ installFrame

\* a variant of checkBuild that looks for the UI binary only
checkBuildUiOnly ==
  /\ ~install.exit.done /\ install.pc = "check"
  /\ IF "ui" \in install.release
     THEN install' = [install EXCEPT !.pc = "place"]
     ELSE install' = [install EXCEPT !.pc = "exit", !.exit = [done |-> TRUE, code |-> 1]]
  /\ last' = Did("checkBuild")
  /\ UNCHANGED <<popupVars, inputVars, historyVars, interactionWaitSeconds,
                 storedWaitMs, promptCall>>

\* if [[ ! -f target/release/<name>-ui ]] || [[ ! -f target/release/<name>-mcp ]]
checkBuild ==
  /\ At("check")
  /\ IF install.release = Roles THEN Goes("place") ELSE Exits(1)
  /\ last' = Did("checkBuild")
  /\ installFrame

\* the directory of the installation: /usr/local/bin on macOS, mkdir -p
\* "$BIN_DIR" elsewhere; install-universal.sh on Windows gives up here
makeInstallDir(ok, code) ==
  /\ At("place")
  /\ IF install.script = "universal" /\ install.os = "windows"
     THEN ok /\ Exits(1)
     ELSE IF install.script = "universal" /\ install.os = "macos"
     THEN ok /\ Goes("cp-ui")
     ELSE Guarded(ok, code, [install EXCEPT !.pc = "cp-ui"])
  /\ last' = Did("makeInstallDir")
  /\ installFrame

\* cp "target/release/<name>-ui" "$DIR/<name>-ui", then the same for -mcp
copyBinary(ok, code) ==
  /\ At("cp-ui") \/ At("cp-mcp")
  /\ LET role == IF install.pc = "cp-ui" THEN "ui" ELSE "mcp"
     IN  /\ ok => role \in install.release
         /\ Guarded(ok, code,
                 [install EXCEPT
                    !.copied = @ \cup {[role |-> role, dir |-> InstallDir(install)]},
                    !.pc = IF role = "ui" THEN "cp-mcp" ELSE "chmod-ui"])
  /\ last' = Did("copyBinary")
  /\ installFrame

\* chmod +x: install-universal.sh runs it for one binary after the other, the
\* simple scripts run it once for both; done holds the binaries whose mode a
\* failed chmod has changed all the same
makeExecutable(ok, code, done) ==
  /\ At("chmod-ui") \/ At("chmod-mcp")
  /\ LET named == IF install.script # "universal" THEN Roles
                  ELSE IF install.pc = "chmod-ui" THEN {"ui"} ELSE {"mcp"}
         marked == {[role |-> r, dir |-> InstallDir(install)] : r \in done}
     IN  /\ done \subseteq named
         /\ ok => done = named
         /\ ~ok => done # named
         /\ IF ok
            THEN install' =
                   [install EXCEPT
                      !.executable = @ \cup marked,
                      !.pc = IF install.script = "universal" /\ install.pc = "chmod-ui"
                             THEN "chmod-mcp" ELSE "report"]
            ELSE install' =
                   [install EXCEPT !.executable = @ \cup marked, !.pc = "exit",
                                   !.exit = [done |-> TRUE, code |-> code]]
  /\ last' = Did("makeExecutable")
  /\ installFrame

\* the report at the end of the script, which then ends with status 0
report ==
  /\ At("report")
  /\ Exits(0)
  /\ last' = Did("report")
  /\ installFrame

(* ============ the prompt module (unnamed/part_003, 1-360) ============= *)
\* A text of this module is the sequence of its lines and a line the sequence
\* of the strings it is put together from; joining with '\n' concatenates
\* the lines, joining with '\n\n' leaves one empty line in between.
EmptyLine == <<>>

\* CORE_RULES: two lines
CORE_RULES == << <<"- <core rule 1>">>, <<"- <core rule 2>">> >>

ToolPrompt(base, whenToUse, howToUse) ==
  [base |-> base, whenToUse |-> whenToUse, howToUse |-> howToUse]

ToolUI(enabled, canDisable, icon) ==
  [enabled |-> enabled, canDisable |-> canDisable, icon |-> icon,
   iconBg |-> "bg", darkIconBg |-> "dark:bg"]

ToolConfig(id, name, prompt, ui) ==
  [id |-> id, name |-> name, description |-> "", prompt |-> prompt, ui |-> ui]

\* MCP_TOOLS_CONFIG: the four tools, their lines shortened to a tag each
MCP_TOOLS_CONFIG ==
  << ToolConfig("zhi", "sanshu",
                ToolPrompt("<zhi base>",
                           <<"zhi w1", "zhi w2", "zhi w3", "zhi w4">>,
                           <<"zhi h1", "zhi h2", "zhi h3">>),
                ToolUI(TRUE, FALSE, "i-carbon-chat")),
     ToolConfig("memory", "memory-name",
                ToolPrompt("", <<"memory w1", "memory w2">>,
                           <<"memory h1", "memory h2", "memory h3", "memory h4",
                             "memory h5">>),
                ToolUI(TRUE, TRUE, "i-carbon-data-base")),
     ToolConfig("sou", "sou-name",
                ToolPrompt("", <<"sou w1", "sou w2", "sou w3">>,
                           <<"sou h1", "sou h2", "sou h3", "sou h4">>),
                ToolUI(FALSE, TRUE, "i-carbon-search")),
     ToolConfig("context7", "context7-name",
                ToolPrompt("", <<"context7 w1", "context7 w2", "context7 w3">>,
                           <<"context7 h1", "context7 h2", "context7 h3",
                             "context7 h4", "context7 h5">>),
                ToolUI(TRUE, TRUE, "i-carbon-document")) >>

\* array.map(f)
Map(f(_), list) == [k \in 1..Len(list) |-> f(list[k])]

\* `- ${s}`
Bullet(s) == <<"- ", s>>

\* the lines of one tool under '## 工具使用指南'
ToolDetail(tool) ==
  << <<"### ", tool.name, " (", tool.id, ")">> >>
    \o (IF Len(tool.prompt.whenToUse) > 0
        THEN << <<"**when to use:**">> >> \o Map(Bullet, tool.prompt.whenToUse)
        ELSE <<>>)
    \o (IF Len(tool.prompt.howToUse) > 0
        THEN << <<"**how to use:**">> >> \o Map(Bullet, tool.prompt.howToUse)
        ELSE <<>>)

\* the body of generateFullPromptFromConfig for the tools it goes by
PromptOf(enabledTools) ==
  LET withBase == SelectSeq(enabledTools, LAMBDA t : t.prompt.base # "")
      baseParts == [k \in 1..Len(withBase) |-> Bullet(withBase[k].prompt.base)]
      guided == SelectSeq(enabledTools,
                          LAMBDA t : ~(Len(t.prompt.whenToUse) = 0
                                       /\ Len(t.prompt.howToUse) = 0))
      toolDetails == Map(ToolDetail, guided)
      parts == << CORE_RULES \o baseParts >>
                 \o (IF Len(toolDetails) > 0
                     THEN << << <<"## <tool guide>">>, EmptyLine >>,
                             Join(toolDetails, <<EmptyLine>>) >>
                     ELSE <<>>)
  IN  Join(parts, <<EmptyLine>>)

\* a variant of generateFullPromptFromConfig that goes by every tool
generateFullPromptOfAll(tools) == PromptOf(tools)

generateFullPromptFromConfig(tools) ==
  PromptOf(SelectSeq(tools, LAMBDA t : t.ui.enabled))

\* MCP_TOOLS_CONFIG.find(t => t.id === id): 0 when there is none
FindConfig(id) ==
  IF \E k \in 1..Len(MCP_TOOLS_CONFIG) : MCP_TOOLS_CONFIG[k].id = id
  THEN CHOOSE k \in 1..Len(MCP_TOOLS_CONFIG) :
         /\ MCP_TOOLS_CONFIG[k].id = id
         /\ \A j \in 1..(k - 1) : MCP_TOOLS_CONFIG[j].id # id
  ELSE 0

\* the ToolPromptConfig generateFullPrompt makes of a legacy tool
FromLegacy(tool) ==
  IF FindConfig(tool.id) # 0
  THEN [MCP_TOOLS_CONFIG[FindConfig(tool.id)] EXCEPT !.ui.enabled = tool.enabled]
  ELSE [id |-> tool.id, name |-> tool.name, description |-> tool.description,
        prompt |-> ToolPrompt("", <<>>, <<>>),
        ui |-> [enabled |-> tool.enabled, canDisable |-> tool.canDisable,
                icon |-> tool.icon, iconBg |-> tool.iconBg,
                darkIconBg |-> tool.darkIconBg]]

\* a variant of generateFullPrompt that keeps the tool's own enabled flag
generateFullPromptByDefault(mcpTools) ==
  generateFullPromptFromConfig(
    [k \in 1..Len(mcpTools) |->
       IF FindConfig(mcpTools[k].id) # 0
       THEN MCP_TOOLS_CONFIG[FindConfig(mcpTools[k].id)]
       ELSE FromLegacy(mcpTools[k])])

generateFullPrompt(mcpTools) ==
  generateFullPromptFromConfig(Map(FromLegacy, mcpTools))

\* a ToolPromptConfig as an MCPToolConfig
Legacy(tool) ==
  [id |-> tool.id, name |-> tool.name, description |-> tool.description,
   enabled |-> tool.ui.enabled, canDisable |-> tool.ui.canDisable,
   icon |-> tool.ui.icon, iconBg |-> tool.ui.iconBg,
   darkIconBg |-> tool.ui.darkIconBg]

DEFAULT_MCP_TOOLS == Map(Legacy, MCP_TOOLS_CONFIG)

REFERENCE_PROMPT == generateFullPromptFromConfig(MCP_TOOLS_CONFIG)

\* the tools the callers may pass: those of MCP_TOOLS_CONFIG as they are and
\* with the switch the other way, and tools the module does not know
SwitchedOver(tool) == [tool EXCEPT !.ui.enabled = ~@]

ToolPool ==
  Range(MCP_TOOLS_CONFIG) \cup {SwitchedOver(t) : t \in Range(MCP_TOOLS_CONFIG)}
    \cup { ToolConfig("x", "extra", ToolPrompt("<x base>", <<>>, <<>>),
                      ToolUI(e, TRUE, "i-x")) : e \in BOOLEAN }
    \cup { ToolConfig("y", "only-how", ToolPrompt("", <<>>, <<"y h1">>),
                      ToolUI(TRUE, TRUE, "i-y")) }

\* the longest list a caller passes, MCP_TOOLS_CONFIG itself apart
MaxTools == 2

ListsOf(pool) ==
  UNION {[1..n -> pool] : n \in 0..MaxTools}

ToolLists == ListsOf(ToolPool) \cup {MCP_TOOLS_CONFIG}

LegacyLists == ListsOf({Legacy(t) : t \in ToolPool}) \cup {DEFAULT_MCP_TOOLS}

PromptCall(fn, arg) ==
  [fn |-> fn, arg |-> arg,
   result |-> IF fn = "generateFullPrompt" THEN generateFullPrompt(arg)
              ELSE generateFullPromptFromConfig(arg)]

promptFrame ==
  UNCHANGED <<popupAndInput, historyVars, interactionWaitSeconds, storedWaitMs,
              install>>

\* a caller asks for the prompt of a list of tools
callGenerateFullPromptFromConfig(tools) ==
  /\ promptCall' = PromptCall("generateFullPromptFromConfig", tools)
  /\ last' = Did("generateFullPromptFromConfig")
  /\ promptFrame

\* a caller of the legacy interface asks for the prompt
callGenerateFullPrompt(mcpTools) ==
  /\ promptCall' = PromptCall("generateFullPrompt", mcpTools)
  /\ last' = Did("generateFullPrompt")
  /\ promptFrame

(* ============= what the slices leave as it was set up ================ *)
\* no install script runs, the settings page shows its defaults, and the
\* prompt module has not been called
NoInstall ==
  [script |-> "universal", ostype |-> "linux-gnu", home |-> "/home/u",
   tools |-> {}, tauriCli |-> FALSE, release |-> {}, os |-> "unknown",
   pc |-> "idle", copied |-> {}, executable |-> {},
   exit |-> [done |-> FALSE, code |-> 0]]

\* const interactionWaitSeconds = ref(1800)
WaitAtRest ==
  /\ interactionWaitSeconds = Num(DefaultWaitSeconds * 10)
  /\ storedWaitMs = Num(DefaultWaitSeconds * 1000)

\* no caller has asked the prompt module for a prompt
PromptAtRest ==
  promptCall = [fn |-> "none", arg |-> <<>>, result |-> <<>>]

InitOutside ==
  /\ WaitAtRest
  /\ install = NoInstall
  /\ PromptAtRest

(* ======================= the popup as a whole ======================== *)
\* the state once McpPopup is set up with its props: the immediate watchers
\* have run (resetForm on an empty form, continuePrompt from appConfig.reply)
\* and PopupInput, when there is a request, is mounted with nothing loaded
InitForm ==
  /\ submitting = FALSE
  /\ toppings = <<>> /\ note = <<>> /\ spiceIds = <<>>
  /\ calls = <<>>
  /\ cNote = <<>> /\ cToppings = <<>> /\ ingredients = <<>>
  /\ customPrompts = <<>> /\ pendingToggles = {} /\ pastes = <<>>
  /\ sortablePrompts = <<>> /\ promptSaves = <<>>
  /\ entries = <<>> /\ search = <<>>
  /\ range = NoRange /\ selectedId = <<>> /\ selectedDetail = NoDetail
  /\ historyCalls = <<>>
  /\ last = Did("setup")

\* ---- one request, its form and the submit button
Init ==
  /\ InitForm
  /\ InitOutside
  /\ request \in Requests \cup {NoRequest}
  /\ mockMode = FALSE
  /\ continuePrompt = DefaultContinuePrompt

Next ==
  \/ \E t \in NoteTexts : typeNote(t)
  \/ \E o \in Options, checked \in BOOLEAN : handleOptionChange(o, checked)
  \/ \E o \in Options : inputHandleOptionToggle(o)
  \/ handleIngredientPaste(PastedImage)
  \/ \E i \in 1..MaxPastes, res \in StashResults : stashReturns(i, res)
  \/ \E k \in 1..Cardinality(SpiceIds) : removeIngredient(k)
  \/ handleSubmit
  \/ \E i \in 1..MaxCalls, ok \in BOOLEAN : sendReturns(i, ok)
  \/ \E i \in 1..MaxCalls, ok \in BOOLEAN : exitReturns(i, ok)
  \/ \E event \in TelegramEvents : handleTelegramEvent(event)

Spec == Init /\ [][Next]_vars

\* ---- the three handlers, the backend and the requests that come and go
InitSend ==
  /\ InitForm
  /\ InitOutside
  /\ request \in Requests \cup {NoRequest}
  /\ mockMode \in BOOLEAN
  /\ continuePrompt \in ContinuePrompts

NextSend ==
  \/ \E r \in Requests \cup {NoRequest} : watchRequest(r)
  \/ \E t \in NoteTexts : typeNote(t)
  \/ handleSubmit
  \/ handleContinue
  \/ handleEnhance
  \/ \E i \in 1..MaxCalls, ok \in BOOLEAN : sendReturns(i, ok)
  \/ \E i \in 1..MaxCalls, ok \in BOOLEAN : exitReturns(i, ok)
  \/ \E i \in 1..MaxCalls : mockDelayEnds(i)

SpecSend == InitSend /\ [][NextSend]_vars

\* the same, with a backend that answers every command it was sent and a
\* timer that runs out
SpecSendLive ==
  /\ InitSend
  /\ [][NextSend]_vars
  /\ WF_vars(\E i \in 1..MaxCalls, ok \in BOOLEAN : sendReturns(i, ok))
  /\ WF_vars(\E i \in 1..MaxCalls, ok \in BOOLEAN : exitReturns(i, ok))
  /\ WF_vars(\E i \in 1..MaxCalls : mockDelayEnds(i))

\* ---- the continue button, the reply configuration and a form being filled
InitContinue ==
  /\ InitForm
  /\ InitOutside
  /\ request \in Requests
  /\ mockMode \in BOOLEAN
  /\ continuePrompt \in ContinuePrompts

NextContinue ==
  \/ \E t \in NoteTexts : typeNote(t)
  \/ \E o \in Options : inputHandleOptionToggle(o)
  \/ handleIngredientPaste(PastedImage)
  \/ \E i \in 1..MaxPastes, res \in StashResults : stashReturns(i, res)
  \/ handleContinue
  \/ \E i \in 1..MaxCalls, ok \in BOOLEAN : sendReturns(i, ok)
  \/ \E i \in 1..MaxCalls, ok \in BOOLEAN : exitReturns(i, ok)
  \/ \E i \in 1..MaxCalls : mockDelayEnds(i)
  \/ \E p \in {NoText} \cup {Some(c) : c \in ContinuePrompts} : loadReplyConfig(p)
  \/ \E p \in ContinuePrompts : appConfigReplyChanges(p)

SpecContinue == InitContinue /\ [][NextContinue]_vars

\* ---- pasting into PopupInput while requests come and go
InitPaste ==
  /\ InitForm
  /\ InitOutside
  /\ request = RequestMenu
  /\ mockMode = FALSE
  /\ continuePrompt = DefaultContinuePrompt

NextPaste ==
  \/ \E r \in {RequestPlain, NoRequest} : watchRequest(r)
  \/ \E ev \in PasteEvents : handleIngredientPaste(ev)
  \/ \E i \in 1..MaxPastes, res \in StashResults : stashReturns(i, res)
  \/ \E i \in 1..MaxPastes, res \in StashResults : fetchReturns(i, res)
  \/ \E i \in 1..MaxPastes, n \in 0..2 : navReturns(i, n)
  \/ \E i \in 1..MaxPastes, blocks \in RustBlockLists : rustReturns(i, blocks)
  \/ \E i \in 1..MaxPastes : rustFails(i)
  \/ \E k \in 1..Cardinality(SpiceIds) : removeIngredient(k)

SpecPaste == InitPaste /\ [][NextPaste]_vars

\* ---- the custom prompts of PopupInput and the note it emits
InitPrompts ==
  /\ InitForm
  /\ InitOutside
  /\ request = RequestMenu
  /\ mockMode = FALSE
  /\ continuePrompt = DefaultContinuePrompt

NextPrompts ==
  \/ \E r \in Requests \cup {NoRequest} : watchRequest(r)
  \/ \E ps \in PromptConfigs : loadCustomPrompts(ps)
  \/ \E id \in {"k1", "k2"}, value \in BOOLEAN : handleConditionalToggle(id, value)
  \/ \E t \in pendingToggles, ok \in BOOLEAN : conditionalToggleReturns(t, ok)
  \/ \E t \in NoteTexts : typeNote(t)

SpecPrompts == InitPrompts /\ [][NextPrompts]_vars

\* ---- the quick templates of PopupInput are dragged into a new order
Indexes == {NoIndex} \cup {Some(k) : k \in 0..2}

InitSort ==
  /\ InitForm
  /\ InitOutside
  /\ request = RequestMenu
  /\ mockMode = FALSE
  /\ continuePrompt = DefaultContinuePrompt

NextSort ==
  \/ \E ps \in SortConfigs : loadCustomPrompts(ps)
  \/ \E oldIndex, newIndex \in Indexes : onEnd(oldIndex, newIndex)
  \/ \E i \in 1..MaxSaves, ok \in BOOLEAN : savePromptOrderReturns(i, ok)
  \/ \E id \in {"k1", "k2"}, value \in BOOLEAN : handleConditionalToggle(id, value)
  \/ \E t \in pendingToggles, ok \in BOOLEAN : conditionalToggleReturns(t, ok)

SpecSort == InitSort /\ [][NextSort]_vars

\* ---- the history tab: lists are loaded, the search box is typed into
InitHistory ==
  /\ InitForm
  /\ InitOutside
  /\ request = NoRequest
  /\ mockMode = FALSE
  /\ continuePrompt = DefaultContinuePrompt

NextHistory ==
  \/ \E list \in {[some |-> FALSE, val |-> <<>>]} \cup {Some(l) : l \in EntryLists} :
       loadEntries(list)
  \/ loadEntriesFails
  \/ \E v \in SearchTexts : setSearch(v)

SpecHistory == InitHistory /\ [][NextHistory]_vars

\* ---- the popup closed: what the slices below start from
InitClosed ==
  /\ InitForm
  /\ request = NoRequest
  /\ mockMode = FALSE
  /\ continuePrompt = DefaultContinuePrompt

\* ---- the history tab: a time range, a selection and the two range buttons
InitRange ==
  /\ InitClosed
  /\ InitOutside

NextRange ==
  \/ \E list \in {Some(<<EntryA>>), Some(<<EntryB, EntryA>>)} : loadEntries(list)
  \/ \E r \in Ranges : setRange(r)
  \/ \E id \in {EntryA.id, EntryB.id} : openEntry(id)
  \/ \E i \in 1..MaxHistoryCalls, ok \in BOOLEAN : openEntryReturns(i, ok)
  \/ exportRangeZip
  \/ deleteRange
  \/ \E i \in 1..MaxHistoryCalls, ok \in BOOLEAN : exportRangeReturns(i, ok)
  \/ \E i \in 1..MaxHistoryCalls, ok \in BOOLEAN : deleteRangeReturns(i, ok)
  \/ \E i \in 1..MaxHistoryCalls, list \in {Some(<<>>), Some(<<EntryB>>)} :
       reloadReturns(i, list)
  \/ \E i \in 1..MaxHistoryCalls : reloadFails(i)

SpecRange == InitRange /\ [][NextRange]_vars

\* ---- the selection of HistoryTab: an entry is opened and deleted
InitSelect ==
  /\ InitClosed
  /\ InitOutside

NextSelect ==
  \/ \E list \in {Some(<<EntryA>>), Some(<<EntryB, EntryA>>)} : loadEntries(list)
  \/ \E id \in {EntryA.id, EntryB.id} : openEntry(id)
  \/ \E i \in 1..MaxHistoryCalls, ok \in BOOLEAN : openEntryReturns(i, ok)
  \/ deleteSelected
  \/ \E i \in 1..MaxHistoryCalls, ok \in BOOLEAN : deleteSelectedReturns(i, ok)
  \/ \E i \in 1..MaxHistoryCalls, list \in {Some(<<>>), Some(<<EntryB>>)} :
       reloadReturns(i, list)
  \/ \E i \in 1..MaxHistoryCalls : reloadFails(i)

SpecSelect == InitSelect /\ [][NextSelect]_vars

\* ---- one run of an install script, from its first line to its exit
InstallRuns ==
  { [script |-> sc, ostype |-> ot, home |-> h, tools |-> ts, tauriCli |-> cli,
     release |-> rel, os |-> "unknown",
     pc |-> IF sc = "universal" THEN "os" ELSE "tools",
     copied |-> {}, executable |-> {}, exit |-> [done |-> FALSE, code |-> 0]] :
      sc \in Scripts, ot \in OsTypes, h \in Homes,
      ts \in SUBSET {"cargo", "pnpm"}, cli \in BOOLEAN, rel \in SUBSET Roles }

InitInstall ==
  /\ InitClosed
  /\ WaitAtRest
  /\ PromptAtRest
  /\ install \in InstallRuns

NextInstall ==
  \/ detectOS
  \/ checkTools
  \/ \E ok \in BOOLEAN, code \in FailCodes : ensureTauriCli(ok, code)
  \/ \E ok \in BOOLEAN, code \in FailCodes, made \in SUBSET Roles : build(ok, code, made)
  \/ checkBuild
  \/ \E ok \in BOOLEAN, code \in FailCodes : makeInstallDir(ok, code)
  \/ \E ok \in BOOLEAN, code \in FailCodes : copyBinary(ok, code)
  \/ \E ok \in BOOLEAN, code \in FailCodes, done \in SUBSET Roles :
       makeExecutable(ok, code, done)
  \/ report

SpecInstall == InitInstall /\ [][NextInstall]_vars

\* ---- the settings page: the wait threshold is loaded and saved
InitWait ==
  /\ InitClosed
  /\ interactionWaitSeconds = Num(DefaultWaitSeconds * 10)
  /\ storedWaitMs \in StoredValues
  /\ install = NoInstall
  /\ PromptAtRest

NextWait ==
  \/ \E v \in FieldValues, ok \in BOOLEAN : updateInteractionWaitSeconds(v, ok)
  \/ \E ok \in BOOLEAN : loadConfig(ok)

SpecWait == InitWait /\ [][NextWait]_vars

\* ---- the prompt module and its callers
InitToolPrompt ==
  /\ InitClosed
  /\ InitOutside

NextToolPrompt ==
  \/ \E tools \in ToolLists : callGenerateFullPromptFromConfig(tools)
  \/ \E mcpTools \in LegacyLists : callGenerateFullPrompt(mcpTools)

SpecToolPrompt == InitToolPrompt /\ [][NextToolPrompt]_vars

(* ============================ the claims ============================== *)
\* The claims speak of trimmed texts, of what can be submitted and of what a
\* paste carries in their own words; these definitions say the same without
\* the operators of the model.

\* a text without the white space at its ends
Strip(s) ==
  LET ink == {k \in 1..Len(s) : s[k] \notin WhiteSpace}
  IN  IF ink = {} THEN <<>>
      ELSE SubSeq(s, CHOOSE k \in ink : \A j \in ink : k <= j,
                     CHOOSE k \in ink : \A j \in ink : k >= j)

\* the id of the request shown, when there is one
RequestId == IF request.present /\ request.id # "" THEN Some(request.id) ELSE NoId

\* C1: whenever handleSubmit passes its guard and sends, the response it has
\* built has as note the trimmed note, or null when that is empty; as toppings
\* the options selected; as ingredients one {spice_id} record for each
\* non-empty spice id attached, in the same order; as ticket_id the id of the
\* current request (null when there is none) and as station 'popup'.
C1_SubmitResponse ==
  (last.op = "handleSubmit" /\ last.passed) =>
    LET r == calls[Len(calls)].response
        ids == SelectSeq(spiceIds, LAMBDA id : id # "")
    IN  /\ r.note = IF Strip(note) = <<>> THEN NoText ELSE Some(Strip(note))
        /\ r.toppings = toppings
        /\ Len(r.ingredients) = Len(ids)
        /\ \A k \in 1..Len(ids) : r.ingredients[k] = [spice_id |-> ids[k]]
        /\ r.ticket.ticket_id = RequestId
        /\ r.ticket.station = "popup"

\* handleSubmit has just sent a note that had to be trimmed, two options and
\* two spice ids for a request with an id
C1_Witness ==
  /\ last.op = "handleSubmit" /\ last.passed
  /\ note # Strip(note)
  /\ Len(toppings) = 2 /\ Len(spiceIds) = 2
  /\ request.id # ""

\* canSubmit in the words of the claim
SpecCanSubmit ==
  IF Len(request.menu) > 0
  THEN toppings # <<>> \/ Strip(note) # <<>> \/ spiceIds # <<>>
  ELSE Strip(note) # <<>> \/ spiceIds # <<>>

\* C2: a handleSubmit that finds canSubmit false or submitting true invokes no
\* backend command and emits no response: it is refused, no invocation begins
\* and none that is under way moves.
C2_GuardedSubmit ==
  [][(last'.op = "handleSubmit" /\ (~SpecCanSubmit \/ submitting))
       => (~last'.passed /\ last'.task = NoTask /\ calls' = calls
           /\ submitting' = submitting)]_vars

\* handleSubmit was refused while an invocation was under way, with a form
\* that could otherwise be submitted
C2_Witness ==
  /\ last = Refused("handleSubmit")
  /\ submitting /\ SpecCanSubmit /\ Len(calls) = 1

\* the handler invocations under way and the one that took the last step
Activations ==
  Range(calls) \cup (IF last.task.kind = "call" THEN {last.task} ELSE {})

\* C3: outside mock mode an invocation of handleSubmit, handleContinue or
\* handleEnhance invokes send_mcp_response first, exit_app only after
\* send_mcp_response has succeeded, and emits the response only after both
\* have succeeded; in mock mode it invokes neither and, once the delay is
\* over, has emitted the response.
C3_SendExitEmit ==
  \A c \in Activations :
    IF c.mock
    THEN /\ c.trace \in {<<>>, <<"emit">>}
         /\ c.pc # "mock" => c.trace = <<"emit">>
    ELSE c.trace \in
           { <<"send_mcp_response">>,
             <<"send_mcp_response", "rejected", "error">>,
             <<"send_mcp_response", "exit_app">>,
             <<"send_mcp_response", "exit_app", "rejected", "error">>,
             <<"send_mcp_response", "exit_app", "emit">> }

\* an invocation of handleEnhance outside mock mode has sent, exited and
\* emitted
C3_Witness ==
  /\ last.op = "exitReturns" /\ last.passed
  /\ last.task.handler = "enhance"
  /\ last.task.trace = <<"send_mcp_response", "exit_app", "emit">>

\* C4: when send_mcp_response or exit_app fails, the invocation catches the
\* failure, shows an error, emits nothing and ends there (it invokes nothing
\* again), and the note, the toppings and the spice ids of the form stay as
\* they are.
C4_FailureIsCaught ==
  [][(last'.op \in {"sendReturns", "exitReturns"} /\ ~last'.passed) =>
       /\ UNCHANGED <<note, toppings, spiceIds>>
       /\ \E i \in 1..Len(calls) :
            /\ calls' = RemoveAt(calls, i)
            /\ last'.task.trace = calls[i].trace \o <<"rejected", "error">>
       /\ \A k \in 1..Len(last'.task.trace) : last'.task.trace[k] # "emit"]_vars

\* exit_app has just failed for the only invocation, over a form with a note
C4_Witness ==
  /\ last.op = "exitReturns" /\ ~last.passed
  /\ note # <<>> /\ calls = <<>>

\* C5: handleContinue, whatever the form holds and whether or not it could be
\* submitted, sends as note the continue prompt configured at that moment,
\* no toppings, no ingredients, and 'popup_continue' as station.
C5_ContinueResponse ==
  [][(last'.op = "handleContinue" /\ ~submitting) =>
       /\ last'.passed
       /\ Len(calls') = Len(calls) + 1
       /\ calls'[Len(calls')].response =
            [note |-> Some(continuePrompt), toppings |-> <<>>,
             ingredients |-> <<>>,
             ticket |-> [ticket_id |-> RequestId, station |-> "popup_continue"]]]_vars

\* handleContinue has just sent an empty continue prompt over a form that
\* holds a note, an option and a spice id
C5_Witness ==
  /\ last = Did("handleContinue")
  /\ continuePrompt = <<>>
  /\ Strip(note) # <<>> /\ toppings # <<>> /\ spiceIds # <<>>

\* the pastes under way and the one that took the last step
PasteTasks ==
  Range(pastes) \cup (IF last.task.kind = "paste"
                      THEN {[last.task EXCEPT !.got = ""]} ELSE {})

\* the event carries an image file; its text/html payload holds a data:image URL
CarriesImageFile(ev) ==
  \/ \E k \in 1..Len(ev.files) : ev.files[k] = "image"
  \/ \E k \in 1..Len(ev.items) : ev.items[k] = FileItem("image", TRUE)

CarriesDataUrl(ev) ==
  ev.html.present /\ \E k \in 1..Len(ev.html.srcs) : ev.html.srcs[k] = "data"

\* the first source of the claim's list that the event makes applicable; the
\* fourth and the fifth depend on what the clipboard holds, not on the event
FirstSource(ev) ==
  IF CarriesImageFile(ev) THEN 1
  ELSE IF CarriesDataUrl(ev) THEN 2
  ELSE IF ev.plain # <<>> THEN 3
  ELSE 4

\* C6: a paste consults its sources in the order 1..5 and stops at the first
\* that applies: image files of the event, data:image URLs of the html, a
\* plain text that is an image path list (which calls the backend read),
\* navigator.clipboard.read(), the backend read; a plain text that is no path
\* list ends the paste at the third source with nothing added.
C6_PasteSourceOrder ==
  \A t \in PasteTasks :
    IF t.ev.defaultPrevented \/ ~t.ev.clipboardData
    THEN t.trace = <<>> /\ ~Running(t)
    ELSE /\ \A k \in 1..Len(t.trace) : t.trace[k] = k
         /\ FirstSource(t.ev) <= 3 => Len(t.trace) = FirstSource(t.ev)
         /\ FirstSource(t.ev) \in {1, 2} => t.src = FirstSource(t.ev)
         /\ FirstSource(t.ev) = 3 =>
              IF looksLikeImageFilePathList(t.ev.plain)
              THEN t.src = 3
              ELSE t.src = 0 /\ ~Running(t) /\ t.added = 0
         /\ FirstSource(t.ev) = 4 =>
              /\ Len(t.trace) \in {4, 5}
              /\ t.src \in {0, 4, 5}
              /\ t.src = 5 <=> Len(t.trace) = 5

\* a paste whose plain text is no path list has just ended at the third
\* source, after another paste had gone through to the backend read
C6_Witness ==
  /\ last.op = "handleIngredientPaste"
  /\ last.task.ev.plain = PlainHello /\ ~CarriesImageFile(last.task.ev)
  /\ last.task.trace = <<1, 2, 3>> /\ last.task.src = 0
  /\ \E k \in 1..Len(pastes) : pastes[k].src = 5

\* C7: whatever pastes, removals and resets have run and however they were
\* interleaved, no two items of the ingredients list have the same spiceId.
C7_NoDuplicateSpice ==
  \A i, j \in 1..Len(ingredients) :
    i # j => ingredients[i].spiceId # ingredients[j].spiceId

\* the stash of a single pasted image has just answered an id and the paste
\* added nothing: the id was in the list
C7_Witness ==
  /\ last.op = "stashReturns"
  /\ last.task.ev = PastedImage
  /\ last.task.got \in SpiceIds /\ last.task.added = 0
  /\ HasSpice(ingredients, last.task.got)

\* C8: when the request changes to another request the form is reset: right
\* after the change no option is selected, the note and the spice ids are
\* empty and submitting is false; and nothing pasted under an earlier request
\* is ever in the list of the one shown.
C8_ResetClearsForm ==
  /\ (last.op = "watchRequest" /\ request.present) =>
       (toppings = <<>> /\ note = <<>> /\ spiceIds = <<>> /\ ~submitting)
  /\ \A k \in 1..Len(ingredients) : ~ingredients[k].earlier

\* the template the claim picks for a prompt, and whether it applies
Chosen(p) ==
  IF p.current_state = "true" THEN OrEmpty(p.template_true)
  ELSE OrEmpty(p.template_false)

Applies(p) == p.type = "conditional" /\ Strip(Chosen(p)) # <<>>

\* each template that applies, trimmed, on a line of its own
RECURSIVE TemplateLines(_)
TemplateLines(ps) ==
  IF ps = <<>> THEN <<>>
  ELSE (IF Applies(Head(ps)) THEN <<NL>> \o Strip(Chosen(Head(ps))) ELSE <<>>)
         \o TemplateLines(Tail(ps))

\* the conditional content in the words of the claim
SpecConditionalContent(ps) ==
  IF TemplateLines(ps) = <<>> THEN <<>> ELSE <<NL>> \o TemplateLines(ps)

\* C9: the note PopupInput emits is the text of the input box followed by the
\* conditional content: for each conditional prompt in list order
\* template_true when its state is true and template_false otherwise (unset
\* counts as false), templates empty after trimming left out, the trimmed
\* templates joined by newlines after a blank line, nothing when none applies.
C9_EmittedNote ==
  (last.op = "typeNote" \/ (last.op = "watchRequest" /\ request.present)) =>
    note = cNote \o SpecConditionalContent(customPrompts)

\* a note has just been typed while two conditional prompts apply, one of them
\* switched on, and a third prompt does not
C9_Witness ==
  /\ last.op = "typeNote" /\ cNote # <<>>
  /\ \E i, j \in 1..Len(customPrompts) :
       /\ i < j
       /\ Applies(customPrompts[i]) /\ customPrompts[i].current_state = "false"
       /\ Applies(customPrompts[j]) /\ customPrompts[j].current_state = "true"
  /\ \E i \in 1..Len(customPrompts) : ~Applies(customPrompts[i])

\* normalization in the words of the claim: trimmed, then character by
\* character full-width colon, slash and space to ASCII and letters to lower
\* case
SpecChar(c) ==
  CASE c = FWColon -> ":"
    [] c = FWSlash -> "/"
    [] c = FWSpace -> SP
    [] OTHER -> LowerChar(c)

SpecNormal(s) == [k \in 1..Len(Strip(s)) |-> SpecChar(Strip(s)[k])]

\* q occurs in h
Occurs(q, h) ==
  \E i \in 1..(Len(h) - Len(q) + 1) : \A k \in 1..Len(q) : h[i + k - 1] = q[k]

\* the fields of an entry the search looks into, one space between them
SearchedText(e) ==
  e.id \o <<SP>> \o e.preview \o <<SP>> \o OrEmpty(e.request_id) \o <<SP>>
    \o OrEmpty(e.source) \o <<SP>> \o e.timestamp \o <<SP>>
    \o formatTimeForSearch(e.timestamp)

Shown(e) ==
  SpecNormal(search) = <<>> \/ Occurs(SpecNormal(search), SpecNormal(SearchedText(e)))

\* C10: the history list is the loaded list when the normalized search text
\* is empty, and otherwise exactly the loaded entries, in their order, whose
\* normalized id, preview, request_id, source, timestamp and formatted local
\* time hold the normalized search text.
C10_HistoryFilter == filteredEntries = SelectSeq(entries, Shown)

\* a search with a full-width colon finds, by its formatted time, one of two
\* loaded entries
C10_Witness ==
  /\ search = <<"0", "7", FWColon, "0", "8">>
  /\ Len(entries) = 2 /\ Len(filteredEntries) = 1
  /\ filteredEntries[1] = entries[2]

\* C11: exportRangeZip and deleteRange invoke their backend command only when
\* the start and the end of the time range are both set; with no range they
\* show the warning, invoke nothing and leave entries, selectedId and
\* selectedDetail as they are.
C11_RangeGuard ==
  [][(last'.op \in {"exportRangeZip", "deleteRange"}) =>
       /\ historyCalls' # historyCalls =>
            /\ range.some
            /\ last'.passed
            /\ historyCalls' = Append(historyCalls, last'.task)
            /\ last'.task.cmd = (IF last'.op = "exportRangeZip"
                                 THEN "export_mcp_history_by_time_range_zip"
                                 ELSE "delete_mcp_history_by_time_range")
       /\ ~range.some =>
            /\ last' = Failed(last'.op, Message("warning", RangeWarning))
            /\ historyCalls' = historyCalls
            /\ entries' = entries
            /\ selectedId' = selectedId
            /\ selectedDetail' = selectedDetail]_vars

\* deleteRange has just shown the warning: no range is set, an entry is
\* selected and its detail is shown
C11_Witness ==
  /\ last = Failed("deleteRange", Message("warning", RangeWarning))
  /\ ~range.some
  /\ selectedId # <<>> /\ selectedDetail.some /\ entries # <<>>

\* C12: an install script that has ended with status 0 has copied the UI
\* binary and the MCP-server binary into one directory and has made both
\* executable there; it has copied nothing anywhere else.
C12_SideBySide ==
  (install.exit.done /\ install.exit.code = 0) =>
    \E c \in install.copied :
      /\ \A r \in Roles :
           /\ [role |-> r, dir |-> c.dir] \in install.copied
           /\ [role |-> r, dir |-> c.dir] \in install.executable
      /\ \A d \in install.copied : d.dir = c.dir

\* install-universal.sh has ended with status 0 on macOS
C12_Witness ==
  /\ install.exit.done /\ install.exit.code = 0
  /\ install.script = "universal" /\ install.os = "macos"

\* the script is past its build step (or has ended)
PastBuild ==
  install.pc \in {"check", "place", "cp-ui", "cp-mcp", "chmod-ui", "chmod-mcp",
                  "report", "exit"}

\* C13: when cargo or pnpm is not found, or when one of the two binaries is
\* missing from target/release after the build step, the script copies no
\* binary and does not end with status 0.
C13_NothingInstalled ==
  (~({"cargo", "pnpm"} \subseteq install.tools)
     \/ (PastBuild /\ install.release # Roles))
    => /\ install.copied = {}
       /\ install.pc \notin {"place", "cp-ui", "cp-mcp", "chmod-ui", "chmod-mcp",
                             "report"}
       /\ install.exit.done => install.exit.code # 0

\* the check of the build result has ended the script with status 1: cargo
\* and pnpm are there, only the UI binary was built
C13_Witness ==
  /\ last = Did("checkBuild")
  /\ install.exit.done /\ install.exit.code = 1
  /\ install.tools = {"cargo", "pnpm"} /\ install.release = {"ui"}

\* floor and round in the words of the claim, for a number of units of which
\* per make a whole
SpecFloor(n, per) == CHOOSE k \in -2..2000 : k * per <= n /\ n < (k + 1) * per
SpecRound(n, per) ==
  CHOOSE k \in -2..2000 : 2 * k * per - per <= 2 * n /\ 2 * n < 2 * k * per + per

\* max(0, floor(s or 0)) for the field s, held in tenths of a second
SpecSeconds(s) ==
  LET whole == IF s.kind = "num" THEN SpecFloor(s.n, 10) ELSE 0
  IN  IF whole > 0 THEN whole ELSE 0

SectionHeads(text) ==
  SelectSeq(text, LAMBDA line : Len(line) > 0 /\ line[1] = "### ")

\* the lines of a prompt between CORE_RULES and the first empty line
BaseRules(text) ==
  LET rest == SubSeq(text, Len(CORE_RULES) + 1, Len(text))
      stop == IF \E k \in 1..Len(rest) : rest[k] = <<>>
              THEN CHOOSE k \in 1..Len(rest) :
                     rest[k] = <<>> /\ \A j \in 1..(k - 1) : rest[j] # <<>>
              ELSE Len(rest) + 1
  IN  SubSeq(rest, 1, stop - 1)

\* the heads and the base rules the claims expect of a list of tool
\* configurations, of which on(t) says which are enabled
ExpectedHeads(tools, on(_)) ==
  LET with == SelectSeq(tools, LAMBDA t : on(t) /\ Len(t.prompt.whenToUse)
                                                    + Len(t.prompt.howToUse) >= 1)
  IN  [k \in 1..Len(with) |-> <<"### ", with[k].name, " (", with[k].id, ")">>]

ExpectedBaseRules(tools, on(_)) ==
  LET with == SelectSeq(tools, LAMBDA t : on(t) /\ t.prompt.base # "")
  IN  [k \in 1..Len(with) |-> <<"- ", with[k].prompt.base>>]

IsEnabled(t) == t.ui.enabled

\* C15: the text generateFullPromptFromConfig returns starts with CORE_RULES
\* and has a '### name (id)' section for exactly the tools that are enabled
\* and have a whenToUse or howToUse line, in the order of the list; a tool
\* that is not enabled adds neither a base rule nor a section.
C15_SectionsOfEnabledTools ==
  promptCall.fn = "generateFullPromptFromConfig" =>
    /\ Len(promptCall.result) >= Len(CORE_RULES)
    /\ SubSeq(promptCall.result, 1, Len(CORE_RULES)) = CORE_RULES
    /\ SectionHeads(promptCall.result) = ExpectedHeads(promptCall.arg, IsEnabled)
    /\ BaseRules(promptCall.result) = ExpectedBaseRules(promptCall.arg, IsEnabled)

\* the prompt was generated for a list with a disabled tool that has a base
\* rule and lines, and an enabled tool that has lines
C15_Witness ==
  /\ promptCall.fn = "generateFullPromptFromConfig"
  /\ \E i, j \in 1..Len(promptCall.arg) :
       /\ ~promptCall.arg[i].ui.enabled
       /\ promptCall.arg[i].prompt.base # ""
       /\ Len(promptCall.arg[i].prompt.whenToUse) > 0
       /\ promptCall.arg[j].ui.enabled
       /\ Len(promptCall.arg[j].prompt.howToUse) > 0

\* the tools MCP_TOOLS_CONFIG knows
KnownIds == {MCP_TOOLS_CONFIG[k].id : k \in 1..Len(MCP_TOOLS_CONFIG)}
ConfigOf(id) == CHOOSE c \in Range(MCP_TOOLS_CONFIG) : c.id = id

\* C16: generateFullPrompt(DEFAULT_MCP_TOOLS) is REFERENCE_PROMPT; for every
\* list of legacy tools the prompt has the base rules and sections of the
\* known tools the caller passes as enabled, whatever their default, and a
\* tool with an id MCP_TOOLS_CONFIG does not know adds no text.
C16_LegacyCompatible ==
  promptCall.fn = "generateFullPrompt" =>
    LET known == SelectSeq(promptCall.arg, LAMBDA t : t.id \in KnownIds)
        passed == [k \in 1..Len(known) |->
                     [id |-> known[k].id, name |-> ConfigOf(known[k].id).name,
                      prompt |-> ConfigOf(known[k].id).prompt,
                      enabled |-> known[k].enabled]]
        PassedOn(t) == t.enabled
    IN  /\ promptCall.arg = DEFAULT_MCP_TOOLS => promptCall.result = REFERENCE_PROMPT
        /\ SubSeq(promptCall.result, 1, Len(CORE_RULES)) = CORE_RULES
        /\ SectionHeads(promptCall.result) = ExpectedHeads(passed, PassedOn)
        /\ BaseRules(promptCall.result) = ExpectedBaseRules(passed, PassedOn)
        /\ promptCall.result = generateFullPrompt(known)

\* the legacy interface was called with a tool it does not know, enabled, and
\* with a known tool whose flag is not its default
C16_Witness ==
  /\ promptCall.fn = "generateFullPrompt"
  /\ \E i, j \in 1..Len(promptCall.arg) :
       /\ promptCall.arg[i].id \notin KnownIds /\ promptCall.arg[i].enabled
       /\ promptCall.arg[j].id \in KnownIds
       /\ promptCall.arg[j].enabled # ConfigOf(promptCall.arg[j].id).ui.enabled

\* the invocations whose send_mcp_response or exit_app has not completed
InFlight == {i \in 1..Len(calls) : calls[i].pc \in {"send", "exit"}}

\* C17: at most one popup response is in flight: while the send_mcp_response
\* or exit_app of one invocation of handleSubmit, handleContinue or
\* handleEnhance has not completed, no other invocation has invoked
\* send_mcp_response.
C17_OneResponseInFlight == Cardinality(InFlight) <= 1

\* whether a response carries a note, an option or an ingredient
HasContent(response) ==
  response.note.some \/ Len(response.toppings) > 0 \/ Len(response.ingredients) > 0

\* C18: every response handleSubmit sends has a note, a topping or an
\* ingredient; the response it would build of a form that has none of the
\* three has the default note '用户确认继续'.
C18_ResponseHasContent ==
  /\ \A c \in Activations : c.handler = "submit" => HasContent(c.response)
  /\ HasContent(SubmitResponse)
  /\ (Strip(note) = <<>> /\ toppings = <<>> /\ spiceIds = <<>>)
       => SubmitResponse.note = Some(DefaultConfirmNote)

\* handleSubmit has just sent a response without a note: an option is all it
\* carries
C18_Witness ==
  /\ last = Did("handleSubmit")
  /\ ~calls[Len(calls)].response.note.some
  /\ Len(calls[Len(calls)].response.toppings) > 0
  /\ calls[Len(calls)].response.ingredients = <<>>

\* C19: submitting, once true, becomes false again when the backend call or
\* the mock delay is over, whether it succeeded or failed; the step in which
\* an invocation of a handler ends leaves submitting false.
C19_SubmittingIsCleared ==
  /\ submitting ~> ~submitting
  /\ [][Len(calls') < Len(calls) => ~submitting']_vars

\* handleEnhance has ended after its mock delay and the popup is unlocked
C19_Witness ==
  /\ last.op = "mockDelayEnds" /\ last.task.handler = "enhance"
  /\ ~submitting /\ calls = <<>>

\* C20: every ingredient that leaves the list is released once:
\* removeIngredient(index) takes the item at index out, keeps the others in
\* their order, revokes its preview URL and discards its spice; the reset and
\* the unmount on a request change release every item, and the list is empty
\* after the reset; no step discards a spice that is in the list after it,
\* and no other step takes an item out.
C20_ReleasedOnce ==
  [][/\ (last'.op = "removeIngredient") =>
          LET index == last'.task.index
          IN  /\ index \in 1..Len(ingredients)
              /\ Len(ingredients') = Len(ingredients) - 1
              /\ \A k \in 1..Len(ingredients') :
                   ingredients'[k] = ingredients[IF k < index THEN k ELSE k + 1]
              /\ last'.task.discarded = <<ingredients[index].spiceId>>
              /\ last'.task.revoked = <<previewUrl(ingredients[index])>>
     /\ (last'.op = "watchRequest" /\ request.present) =>
          /\ last'.task.discarded =
               [k \in 1..Len(ingredients) |-> ingredients[k].spiceId]
          /\ last'.task.revoked =
               [k \in 1..Len(ingredients) |-> previewUrl(ingredients[k])]
          /\ request'.present => ingredients' = <<>>
     /\ last'.task.kind = "release" =>
          \A k \in 1..Len(last'.task.discarded) :
            /\ ~HasSpice(ingredients', last'.task.discarded[k])
            /\ \A j \in 1..Len(last'.task.discarded) :
                 last'.task.discarded[j] = last'.task.discarded[k] => j = k
     /\ last'.task.kind # "release" => Range(ingredients) \subseteq Range(ingredients')
    ]_vars

\* a request change has just reset a form that held two ingredients
C20_Witness ==
  /\ last.op = "watchRequest" /\ request.present
  /\ last.task.kind = "release" /\ Len(last.task.discarded) = 2
  /\ ingredients = <<>>

\* ---- C21
\* the calls of HistoryTab that await the list of entries
Reloads(cs) == {k \in 1..Len(cs) : cs[k].cmd = "list_mcp_history_entries"}

\* C21: deleteSelected without a selected entry changes nothing and invokes
\* nothing; with one it invokes delete_mcp_history_entry for that entry.
\* When the command succeeds, selectedId and selectedDetail are cleared and
\* the list of entries is asked for again (one more list_mcp_history_entries
\* awaited, the entries as they were until it answers); when it fails, an
\* error is shown, selectedId, selectedDetail and the entries are as before
\* and no list is asked for.
C21_DeleteSelected ==
  [][ /\ (last'.op = "deleteSelected" /\ selectedId = <<>>)
         => /\ ~last'.passed
            /\ last'.task = NoTask
            /\ UNCHANGED <<historyVars, popupAndInput>>
      /\ (last'.op = "deleteSelected" /\ selectedId # <<>>)
         => /\ historyCalls' =
                 Append(historyCalls,
                        [kind |-> "invoke", op |-> "deleteSelected",
                         cmd |-> "delete_mcp_history_entry",
                         args |-> [id |-> selectedId]])
            /\ UNCHANGED <<entries, selectedId, selectedDetail>>
      /\ (last'.op = "deleteSelectedReturns" /\ last'.passed)
         => /\ selectedId' = <<>>
            /\ ~selectedDetail'.some
            /\ last'.task.level = "success"
            /\ Len(historyCalls') = Len(historyCalls)
            /\ Cardinality(Reloads(historyCalls'))
                 = Cardinality(Reloads(historyCalls)) + 1
            /\ \A k \in Reloads(historyCalls') \ Reloads(historyCalls) :
                 /\ historyCalls[k].cmd = "delete_mcp_history_entry"
                 /\ historyCalls'[k].args = [limit |-> 500]
            /\ UNCHANGED entries
      /\ (last'.op = "deleteSelectedReturns" /\ ~last'.passed)
         => /\ last'.task.level = "error"
            /\ UNCHANGED <<selectedId, selectedDetail, entries>>
            /\ Len(historyCalls') = Len(historyCalls) - 1
            /\ Cardinality(Reloads(historyCalls'))
                 = Cardinality(Reloads(historyCalls)) ]_vars

\* the deletion of the opened entry A1 has succeeded: the selection is empty
\* and the list, still holding the entry, is being loaded again
C21_Witness ==
  /\ last.op = "deleteSelectedReturns"
  /\ last.passed
  /\ selectedId = <<>>
  /\ ~selectedDetail.some
  /\ Len(entries) > 0
  /\ \E k \in Reloads(historyCalls) : historyCalls[k].op = "deleteSelected"

\* ---- C22
\* a list without its item at place k
Without(s, k) == [j \in 1..(Len(s) - 1) |-> IF j < k THEN s[j] ELSE s[j + 1]]

\* how often p occurs in a list
Occurrences(s, p) == Cardinality({k \in 1..Len(s) : s[k] = p})

\* the prompts of a list that are conditional, in their order
ConditionalOnes(s) == SelectSeq(s, LAMBDA p : p.type = "conditional")

\* C22: a drag that ends with oldIndex and newIndex both defined and
\* different leaves the list of quick templates with the dragged item at
\* newIndex and the other items in the order they had; customPrompts is then
\* that list followed by the conditional prompts, every prompt occurring as
\* often as before; update_custom_prompt_order is invoked once with the ids
\* of the list in its new order. A drag whose indexes are equal or undefined
\* changes neither list and invokes nothing.
C22_DragReorders ==
  [][ last'.op = "onEnd" =>
        LET oldIndex == last'.task.oldIndex
            newIndex == last'.task.newIndex
        IN  IF oldIndex.some /\ newIndex.some /\ oldIndex.val # newIndex.val
            THEN /\ Len(sortablePrompts') = Len(sortablePrompts)
                 /\ sortablePrompts'[newIndex.val + 1] = sortablePrompts[oldIndex.val + 1]
                 /\ Without(sortablePrompts', newIndex.val + 1)
                      = Without(sortablePrompts, oldIndex.val + 1)
                 /\ customPrompts' = sortablePrompts' \o ConditionalOnes(customPrompts)
                 /\ \A k \in 1..Len(customPrompts) :
                      Occurrences(customPrompts', customPrompts[k])
                        = Occurrences(customPrompts, customPrompts[k])
                 /\ Len(customPrompts') = Len(customPrompts)
                 /\ last'.task.invoked =
                      << [cmd |-> "update_custom_prompt_order",
                          args |-> [promptIds |->
                                      [k \in 1..Len(sortablePrompts') |->
                                         sortablePrompts'[k].id]]] >>
                 /\ promptSaves' = promptSaves \o last'.task.invoked
            ELSE /\ UNCHANGED <<customPrompts, sortablePrompts, promptSaves>>
                 /\ last'.task.invoked = <<>> ]_vars

\* the first of three templates was dropped at the last place while a
\* conditional prompt was switched on: the order n1, n3, n2 is being saved
C22_Witness ==
  /\ last.op = "onEnd"
  /\ last.passed
  /\ last.task.oldIndex = Some(0)
  /\ last.task.newIndex = Some(2)
  /\ Len(sortablePrompts) = 3
  /\ sortablePrompts[3].id = "n2"
  /\ Len(customPrompts) = 5
  /\ \E k \in 1..Len(customPrompts) :
       customPrompts[k].id = "k1" /\ customPrompts[k].current_state = "true"
  /\ promptSaves # <<>>
  /\ promptSaves[Len(promptSaves)].args.promptIds = <<"n1", "n3", "n2">>
====
